---------------------------- MODULE Spec2Model ----------------------------
(***************************************************************************)
(* A model of the three Streamlit pages of the CO2emissions repository:    *)
(*   page 1  postal-code linkage     (src/1_....py)                         *)
(*   page 2  latitude/longitude      (src/pages/2_....py)                   *)
(*   page 3  distance and CO2        (src/pages/3_....py)                   *)
(*                                                                         *)
(* The state is what Streamlit keeps between script runs: the widgets      *)
(* (uploaded files, the emission factor) and st.session_state.  One action *)
(* per page models a click on its run button: the whole handler, from the  *)
(* reset of the session keys to the stored result or error.  The variable  *)
(* call holds one invocation of a helper function (haversine, or           *)
(* read_csv_with_fallback step by step) in the specifications that study   *)
(* the helpers on their own, and NoCall in the others.                     *)
(*                                                                         *)
(* Conventions.  A text is a sequence of one-character strings.  A cell of *)
(* a DataFrame is NaN, Str(text) or Num(n).  Column names and the two code *)
(* kinds are written in ASCII (the module cannot hold the Japanese names): *)
(*   supplier_code = shiire-saki code, consignee_code = niuke-nin code,    *)
(*   supplier_postal, postal, code_type, code, qty (quantity), lat, lon,   *)
(*   distance_km, co2_g, and KindSupplier / KindConsignee for the two      *)
(*   values of the code type.                                              *)
(* Character tokens "FW0".."FW9" stand for the full-width digits           *)
(* U+FF10..U+FF19, each one character.                                     *)
(***************************************************************************)
EXTENDS Integers, Sequences, FiniteSets, TLC

VARIABLES widgets, session, call

vars == <<widgets, session, call>>

-----------------------------------------------------------------------------
(* Bounds of the model.                                                    *)

MaxFiles == 2

MaxFileRows == 1

MaxMasterRows == 2

MaxCodeRows == 2

MaxGeoRows == 3

MaxRows_3 == 2

MaxGeoListRows == 3

-----------------------------------------------------------------------------
(* Values.                                                                 *)

NaN == [t |-> "nan"]

None == [t |-> "none"]

Str(s) == [t |-> "str", s |-> s]

Num(n) == [t |-> "num", n |-> n]

DF(rows) == [t |-> "df", rows |-> rows]

NoFile == [present |-> FALSE]

NoCall == [fn |-> "none"]

isna(x) == x = NaN

(* Sequences of length 0..n over S. *)
SeqUpTo(S, n) == UNION {[1..k -> S] : k \in 0..n}

(* The subsequence of seq at the indices that satisfy P, in order. *)
SelectIdx(seq, P(_)) ==
    LET F[i \in 0..Len(seq)] ==
            IF i = 0 THEN <<>>
            ELSE IF P(i) THEN Append(F[i - 1], seq[i]) ELSE F[i - 1]
    IN  F[Len(seq)]

(* pd.concat of a sequence of row sequences. *)
Concat(seqs) ==
    LET F[i \in 0..Len(seqs)] == IF i = 0 THEN <<>> ELSE F[i - 1] \o seqs[i]
    IN  F[Len(seqs)]

(* [f(seq[1]), ..., f(seq[n])] *)
Map(seq, f(_)) == [i \in 1..Len(seq) |-> f(seq[i])]

-----------------------------------------------------------------------------
(* Text operations of pandas' .str accessor and astype(str).               *)

WhitespaceChars == {" "}

(* str.strip(): leading and trailing whitespace removed. *)
LStrip(s) ==
    LET F[i \in 1..(Len(s) + 1)] ==
            IF i > Len(s) THEN <<>>
            ELSE IF s[i] \in WhitespaceChars THEN F[i + 1]
            ELSE SubSeq(s, i, Len(s))
    IN  F[1]

RStrip(s) ==
    LET F[i \in 0..Len(s)] ==
            IF i = 0 THEN <<>>
            ELSE IF s[i] \in WhitespaceChars THEN F[i - 1]
            ELSE SubSeq(s, 1, i)
    IN  F[Len(s)]

strip(s) == RStrip(LStrip(s))

(* str.replace('-', '', regex=False) *)
RemoveHyphens(s) == SelectSeq(s, LAMBDA c : c # "-")

(* astype(str) of one cell: a missing value becomes the text "nan". *)
astype_str(x) == IF isna(x) THEN <<"n", "a", "n">> ELSE x.s

-----------------------------------------------------------------------------
(* Uploaded files.  A file is its bytes seen through pd.read_csv: what      *)
(* each encoding does with them (decode) and the table they hold (cols,    *)
(* rows).  A row is a record of cells, one per modelled column.            *)

Encodings == {"utf-8-sig", "cp932", "utf-8"}

DecodeResults == {"ok", "UnicodeDecodeError", "Exception"}

File(decode, cols, rows) ==
    [present |-> TRUE, decode |-> decode, cols |-> cols, rows |-> rows]

(* Bytes every encoding reads (plain ASCII). *)
DecodeAscii == [e \in Encodings |-> "ok"]

(* A CP932 file: not valid UTF-8. *)
DecodeCp932 ==
    [e \in Encodings |-> IF e = "cp932" THEN "ok" ELSE "UnicodeDecodeError"]

(* Bytes no encoding reads. *)
DecodeNone == [e \in Encodings |-> "UnicodeDecodeError"]

(* Bytes pd.read_csv rejects for another reason (an empty file). *)
DecodeBroken == [e \in Encodings |-> "Exception"]

-----------------------------------------------------------------------------
(* Page 1: src/1_....py                                                    *)

KindSupplier == "supplier"

KindConsignee == "consignee"

required_sales_cols == {"supplier_code", "consignee_code"}

required_supplier_cols == {"supplier_code", "supplier_postal"}

required_consignee_cols == {"consignee_code", "postal"}

ErrDecode == [t |-> "err", msg |-> "cannot determine encoding"]

ErrRead == [t |-> "err", msg |-> "file read error"]

ErrSchema(what) == [t |-> "err", msg |-> "missing columns", file |-> what]

(* read_csv_with_fallback of page 1: UTF-8 with BOM, then CP932 only when  *)
(* the first attempt raised UnicodeDecodeError.                            *)
read_csv_with_fallback_1(file) ==
    IF file.decode["utf-8-sig"] = "ok"
    THEN [ok |-> TRUE, tried |-> <<"utf-8-sig">>]
    ELSE IF file.decode["utf-8-sig"] = "UnicodeDecodeError"
    THEN IF file.decode["cp932"] = "ok"
         THEN [ok |-> TRUE, tried |-> <<"utf-8-sig", "cp932">>]
         ELSE [ok |-> FALSE, tried |-> <<"utf-8-sig", "cp932">>, err |-> ErrDecode]
    ELSE [ok |-> FALSE, tried |-> <<"utf-8-sig">>, err |-> ErrRead]

(* Lines 125-138: the sales files are read in upload order; the first one  *)
(* that cannot be read or lacks a required column ends the run.            *)
ReadSalesFiles_1(files) ==
    LET F[i \in 0..Len(files)] ==
            IF i = 0 THEN [ok |-> TRUE, dfs |-> <<>>, log |-> <<"read sales">>]
            ELSE LET prev == F[i - 1]
                     r == read_csv_with_fallback_1(files[i])
                 IN  IF ~prev.ok THEN prev
                     ELSE IF ~r.ok
                     THEN [ok |-> FALSE, err |-> r.err,
                           log |-> Append(prev.log, "try")]
                     ELSE IF ~(required_sales_cols \subseteq files[i].cols)
                     THEN [ok |-> FALSE, err |-> ErrSchema("sales"),
                           log |-> Append(prev.log, "try")]
                     ELSE [ok |-> TRUE, dfs |-> Append(prev.dfs, files[i].rows),
                           log |-> prev.log \o <<"try", "read">>]
    IN  F[Len(files)]

(* Lines 148-161 and 163-176: one master file. *)
ReadMaster_1(file, required, what) ==
    LET r == read_csv_with_fallback_1(file)
    IN  IF ~r.ok THEN [ok |-> FALSE, err |-> r.err, log |-> <<what, "try">>]
        ELSE IF ~(required \subseteq file.cols)
        THEN [ok |-> FALSE, err |-> ErrSchema(what), log |-> <<what, "try">>]
        ELSE [ok |-> TRUE, df |-> file.rows, log |-> <<what, "try", "read">>]

(* Lines 184-205: the codes of both roles, one row per sales row and role, *)
(* without missing and blank codes, each (code, kind) pair once.           *)
CodesOfRole(sales_data, column, kind) ==
    [i \in 1..Len(sales_data) |-> [code |-> sales_data[i][column], code_type |-> kind]]

all_codes_raw(sales_data) ==
    CodesOfRole(sales_data, "supplier_code", KindSupplier)
        \o CodesOfRole(sales_data, "consignee_code", KindConsignee)

dropna_code(rows) == SelectSeq(rows, LAMBDA r : ~isna(r.code))

NormalizeSalesCode(r) == [r EXCEPT !.code = Str(strip(astype_str(r.code)))]

DropEmptyCode(rows) == SelectSeq(rows, LAMBDA r : r.code # Str(<<>>))

(* DataFrame.drop_duplicates(): the first of equal rows is kept. *)
drop_duplicates(rows) ==
    SelectIdx(rows, LAMBDA i : \A j \in 1..(i - 1) : rows[j] # rows[i])

unique_codes(sales_data) ==
    drop_duplicates(DropEmptyCode(Map(dropna_code(all_codes_raw(sales_data)),
                                      NormalizeSalesCode)))

(* Lines 214 and 223: dropna(subset=[code, postal]). *)
dropna_master(rows) == SelectSeq(rows, LAMBDA r : ~isna(r.code) /\ ~isna(r.postal))

(* The supplier master's code with its hyphens kept. *)
SupplierMasterCodeKeepingHyphens(r) ==
    [r EXCEPT !.code = Str(strip(astype_str(r.code)))]

(* Lines 215-217: the supplier master's code as text, trimmed, without     *)
(* hyphens.                                                                *)
NormalizeSupplierMasterCode(r) ==
    [r EXCEPT !.code = Str(RemoveHyphens(strip(astype_str(r.code))))]

(* The consignee master's code without its hyphens. *)
ConsigneeMasterCodeWithoutHyphens(r) ==
    [r EXCEPT !.code = Str(RemoveHyphens(strip(astype_str(r.code))))]

(* Lines 224-226: the consignee master's code as text, trimmed; the hyphen *)
(* removal is commented out in the source.                                 *)
NormalizeConsigneeMasterCode(r) ==
    [r EXCEPT !.code = Str(strip(astype_str(r.code)))]

(* No removal of duplicates. *)
KeepAllDuplicates(rows) == rows

(* The first of the rows with one code kept, not the last. *)
KeepFirstNotLast(rows) ==
    SelectIdx(rows, LAMBDA i : \A j \in 1..(i - 1) : rows[j].code # rows[i].code)

(* drop_duplicates(subset=[code], keep='last') *)
drop_duplicates_keep_last(rows) ==
    SelectIdx(rows, LAMBDA i : \A j \in (i + 1)..Len(rows) : rows[j].code # rows[i].code)

(* drop_duplicates(subset=[code], keep='first') *)
drop_duplicates_keep_first(rows) ==
    SelectIdx(rows, LAMBDA i : \A j \in 1..(i - 1) : rows[j].code # rows[i].code)

PrepareSupplierMaster(rows) ==
    drop_duplicates_keep_last(Map(dropna_master(rows), NormalizeSupplierMasterCode))

PrepareConsigneeMaster(rows) ==
    drop_duplicates_keep_last(Map(dropna_master(rows), NormalizeConsigneeMasterCode))

(* pd.merge(left, right, left_on=code, right_on=code, how='left'): every   *)
(* left row once per right row with its code, in the order of the left     *)
(* rows, and once with a missing postal code when no right row has it.     *)
MergeLeftPostal(left, right) ==
    LET Matches(l) == SelectSeq(right, LAMBDA r : r.code = l.code)
        Joined(l) ==
            IF Matches(l) = <<>>
            THEN <<[code_type |-> l.code_type, code |-> l.code, postal |-> NaN]>>
            ELSE [k \in 1..Len(Matches(l)) |->
                    [code_type |-> l.code_type, code |-> l.code,
                     postal |-> Matches(l)[k].postal]]
    IN  Concat([i \in 1..Len(left) |-> Joined(left[i])])

OfKind(rows, kind) == SelectSeq(rows, LAMBDA r : r.code_type = kind)

(* Lines 261-262: fillna(''), astype(str), replace('nan', ''). *)
PostalAsText(r) ==
    LET filled == IF isna(r.postal) THEN Str(<<>>) ELSE r.postal
        text == astype_str(filled)
    IN  [r EXCEPT !.postal = Str(IF text = <<"n", "a", "n">> THEN <<>> ELSE text)]

(* Lines 236-262. *)
merged_all(codes, supplier_master, consignee_master) ==
    Map(MergeLeftPostal(OfKind(codes, KindSupplier), supplier_master)
            \o MergeLeftPostal(OfKind(codes, KindConsignee), consignee_master),
        PostalAsText)

(* Lines 272-274. *)
SuccessRows_1(merged) == SelectSeq(merged, LAMBDA r : r.postal # Str(<<>>))

FailedRows_1(merged) ==
    Map(SelectSeq(merged, LAMBDA r : r.postal = Str(<<>>)),
        LAMBDA r : [code_type |-> r.code_type, code |-> r.code])

(* Lines 115-299: the try block of page 1, from the uploaded files to the  *)
(* two result tables or the error, with the log kept in either case.       *)
Process_1(w) ==
    LET sales == ReadSalesFiles_1(w.sales_uploader)
        sup == ReadMaster_1(w.supplier_uploader, required_supplier_cols, "supplier master")
        con == ReadMaster_1(w.consignee_uploader, required_consignee_cols, "consignee master")
        log0 == <<"log">>
    IN  IF ~sales.ok
        THEN [ok |-> FALSE, err |-> sales.err, log |-> log0 \o sales.log]
        ELSE IF sales.dfs = <<>>
        THEN [ok |-> FALSE, err |-> [t |-> "err", msg |-> "no sales file"],
              log |-> log0 \o sales.log]
        ELSE IF ~sup.ok
        THEN [ok |-> FALSE, err |-> sup.err,
              log |-> log0 \o sales.log \o <<"concat">> \o sup.log]
        ELSE IF ~con.ok
        THEN [ok |-> FALSE, err |-> con.err,
              log |-> log0 \o sales.log \o <<"concat">> \o sup.log \o con.log]
        ELSE LET codes == unique_codes(Concat(sales.dfs))
                 merged == merged_all(codes, PrepareSupplierMaster(sup.df),
                                      PrepareConsigneeMaster(con.df))
             IN  [ok |-> TRUE,
                  success_df |-> SuccessRows_1(merged),
                  failed_df |-> FailedRows_1(merged),
                  log |-> log0 \o sales.log \o <<"concat">> \o sup.log \o con.log
                             \o <<"codes", "masters", "merged", "split">>]

(* Lines 92-97. *)
MaxSalesFiles == 12

all_files_uploaded_1(w) ==
    /\ Len(w.sales_uploader) > 0
    /\ Len(w.sales_uploader) <= MaxSalesFiles
    /\ w.supplier_uploader.present
    /\ w.consignee_uploader.present

(* d @@-style update of the session dictionary: the keys of upd are set. *)
SetKeys(ss, upd) ==
    [k \in DOMAIN ss \cup DOMAIN upd |-> IF k \in DOMAIN upd THEN upd[k] ELSE ss[k]]

(* st.session_state.get(key, default) *)
Get(ss, key, default) == IF key \in DOMAIN ss THEN ss[key] ELSE default

(* A reset that leaves the stored tables and the done flag alone. *)
ResetWithoutTables_1 ==
    [error_message |-> None, log_messages |-> <<>>, button_clicked |-> TRUE]

(* Lines 104-109. *)
Reset_1 ==
    [processing_done |-> FALSE, success_df |-> None,
     failed_df |-> None, error_message |-> None,
     log_messages |-> <<>>, button_clicked |-> TRUE]

(* Lines 103-299: a click on the run button of page 1, which is disabled   *)
(* unless all files are uploaded.                                          *)
Click_1 ==
    /\ all_files_uploaded_1(widgets)
    /\ LET res == Process_1(widgets)
           reset == Reset_1
       IN  session' =
             IF res.ok
             THEN SetKeys(SetKeys(session, reset),
                          [processing_done |-> TRUE,
                           success_df |-> DF(res.success_df),
                           failed_df |-> DF(res.failed_df),
                           log_messages |-> res.log])
             ELSE SetKeys(SetKeys(session, reset),
                          [error_message |-> res.err, log_messages |-> res.log])
    /\ UNCHANGED widgets

Run_1 == Click_1 /\ UNCHANGED call

-----------------------------------------------------------------------------
(* Pages 2 and 3: read_csv_with_fallback tries every encoding in turn and  *)
(* goes on after any exception.                                            *)

encodings_to_try == <<"utf-8-sig", "cp932", "utf-8">>

TryEncodings(file, order) ==
    LET F[i \in 1..(Len(order) + 1)] ==
            IF i > Len(order)
            THEN [ok |-> FALSE, tried |-> order, err |-> ErrDecode]
            ELSE IF file.decode[order[i]] = "ok"
            THEN [ok |-> TRUE, tried |-> SubSeq(order, 1, i)]
            ELSE F[i + 1]
    IN  F[1]

read_csv_with_fallback_2(file) == TryEncodings(file, encodings_to_try)

read_csv_with_fallback_3(file) == TryEncodings(file, encodings_to_try)

-----------------------------------------------------------------------------
(* Page 2: src/pages/2_....py                                              *)

required_code_list_cols == {"code_type", "code", "postal"}

required_geocode_cols == {"postal_cd", "longitude", "latitude"}

AsciiDigits == {"0", "1", "2", "3", "4", "5", "6", "7", "8", "9"}

FullWidthDigits == {"FW0", "FW1", "FW2", "FW3", "FW4", "FW5", "FW6", "FW7", "FW8", "FW9"}

(* What \d of Python's re matches in a str pattern: any Unicode decimal    *)
(* digit, of which the ASCII and the full-width digits are modelled.       *)
RegexDigits == AsciiDigits \cup FullWidthDigits

PostalDigits == 7

(* str.match(r'^\d{7}$'): seven digits, then the end of the text or a last *)
(* line break.                                                             *)
MatchPostalKey(s) ==
    /\ Len(s) = PostalDigits \/ (Len(s) = PostalDigits + 1 /\ s[Len(s)] = "\n")
    /\ \A i \in 1..PostalDigits : s[i] \in RegexDigits

DigitValue(c) == CHOOSE d \in 0..9 : <<"0", "1", "2", "3", "4", "5", "6", "7", "8", "9">>[d + 1] = c

(* pd.to_numeric(errors='coerce') of one cell: a number stays, a text of   *)
(* ASCII digits is read as that number, anything else is missing.          *)
to_numeric(x) ==
    IF x.t = "num" THEN x
    ELSE IF x.t = "str" /\ x.s # <<>> /\ \A i \in 1..Len(x.s) : x.s[i] \in AsciiDigits
    THEN LET V[i \in 0..Len(x.s)] ==
                 IF i = 0 THEN 0 ELSE 10 * V[i - 1] + DigitValue(x.s[i])
         IN  Num(V[Len(x.s)])
    ELSE NaN

(* Lines 122-126: the postal code as trimmed text, its key, and the rows   *)
(* whose key has the postal form.                                          *)
WithPostalKey_CodeList(r) ==
    LET text == strip(astype_str(r.postal))
    IN  [code_type |-> r.code_type, code |-> r.code, postal |-> Str(text),
         postal_key |-> RemoveHyphens(text)]

PrepareCodeList(rows) ==
    SelectSeq(Map(rows, WithPostalKey_CodeList), LAMBDA r : MatchPostalKey(r.postal_key))

(* Lines 130-136. *)
WithPostalKey_Geocode(r) ==
    [latitude |-> to_numeric(r.latitude), longitude |-> to_numeric(r.longitude),
     postal_key |-> RemoveHyphens(strip(astype_str(r.postal_cd)))]

(* Lines 139-140. *)
PrepareGeocode(rows) ==
    SelectSeq(Map(rows, WithPostalKey_Geocode),
              LAMBDA r : ~isna(r.latitude) /\ ~isna(r.longitude)
                            /\ MatchPostalKey(r.postal_key))

RECURSIVE GCD(_, _)
GCD(a, b) == IF b = 0 THEN a ELSE GCD(b, a % b)

(* The exact quotient n / d of non-negative integers, in lowest terms. *)
Fraction(n, d) == [num |-> n \div GCD(n, d), den |-> d \div GCD(n, d)]

Sum(values) ==
    LET F[i \in 0..Len(values)] == IF i = 0 THEN 0 ELSE F[i - 1] + values[i]
    IN  F[Len(values)]

(* The first value of the group instead of its mean. *)
FirstOfGroup(values) == Fraction(values[1], 1)

(* The 'mean' aggregation of a group. *)
mean(values) == Fraction(Sum(values), Len(values))

(* Lines 144-152: groupby('postal_key') with the mean of each coordinate;  *)
(* one row per key.                                                        *)
geocode_avg(rows) ==
    LET firsts == SelectIdx(rows, LAMBDA i : \A j \in 1..(i - 1) :
                                      rows[j].postal_key # rows[i].postal_key)
        Group(key) == SelectSeq(rows, LAMBDA r : r.postal_key = key)
    IN  [k \in 1..Len(firsts) |->
            [postal_key |-> firsts[k].postal_key,
             latitude_avg |-> mean(Map(Group(firsts[k].postal_key), LAMBDA r : r.latitude.n)),
             longitude_avg |-> mean(Map(Group(firsts[k].postal_key), LAMBDA r : r.longitude.n))]]

(* Lines 164-169: pd.merge(code_list_df, geocode_avg, on='postal_key',     *)
(* how='left').                                                            *)
MergeLeftGeo(left, right) ==
    LET Matches(l) == SelectSeq(right, LAMBDA r : r.postal_key = l.postal_key)
        Row(l, lat, lon) ==
            [code_type |-> l.code_type, code |-> l.code, postal |-> l.postal,
             postal_key |-> l.postal_key, latitude_avg |-> lat, longitude_avg |-> lon]
        Joined(l) ==
            IF Matches(l) = <<>> THEN <<Row(l, NaN, NaN)>>
            ELSE [k \in 1..Len(Matches(l)) |->
                    Row(l, Matches(l)[k].latitude_avg, Matches(l)[k].longitude_avg)]
    IN  Concat([i \in 1..Len(left) |-> Joined(left[i])])

success_condition(r) == ~isna(r.latitude_avg) /\ ~isna(r.longitude_avg)

(* Lines 176-179. *)
SuccessRows_2(merged) ==
    Map(SelectSeq(merged, success_condition),
        LAMBDA r : [code_type |-> r.code_type, code |-> r.code, postal |-> r.postal,
                    lat |-> r.latitude_avg, lon |-> r.longitude_avg])

FailureReason == "no valid postal code in the geocode data"

(* Lines 183-187. *)
FailedRows_2(merged) ==
    Map(SelectSeq(merged, LAMBDA r : ~success_condition(r)),
        LAMBDA r : [code_type |-> r.code_type, code |-> r.code, postal |-> r.postal,
                    reason |-> FailureReason])

ReadTable_2(file, required, what) ==
    LET r == read_csv_with_fallback_2(file)
    IN  IF ~r.ok THEN [ok |-> FALSE, err |-> r.err, log |-> <<what, "try">>]
        ELSE IF ~(required \subseteq file.cols)
        THEN [ok |-> FALSE, err |-> ErrSchema(what), log |-> <<what, "try">>]
        ELSE [ok |-> TRUE, df |-> file.rows, log |-> <<what, "try", "read">>]

(* Lines 86-211: the try block of page 2. *)
Process_2(w) ==
    LET codes == ReadTable_2(w.code_list_uploader, required_code_list_cols, "code list")
        geo == ReadTable_2(w.geocode_uploader, required_geocode_cols, "geocode")
        log0 == <<"log", "read">>
    IN  IF ~codes.ok
        THEN [ok |-> FALSE, err |-> codes.err, log |-> log0 \o codes.log]
        ELSE IF ~geo.ok
        THEN [ok |-> FALSE, err |-> geo.err, log |-> log0 \o codes.log \o geo.log]
        ELSE LET merged == MergeLeftGeo(PrepareCodeList(codes.df),
                                        geocode_avg(PrepareGeocode(geo.df)))
             IN  [ok |-> TRUE,
                  success_df |-> SuccessRows_2(merged),
                  failed_df |-> FailedRows_2(merged),
                  log |-> log0 \o codes.log \o geo.log
                             \o <<"read done", "prepared", "merged", "split">>]

(* Line 68. *)
all_files_uploaded_2(w) == w.code_list_uploader.present /\ w.geocode_uploader.present

(* Lines 75-80. *)
Reset_2 ==
    [geo_processing_done |-> FALSE, geo_success_df |-> None,
     geo_failed_df |-> None, geo_error_message |-> None,
     geo_log_messages |-> <<>>, geo_button_clicked |-> TRUE]

(* Lines 74-211: a click on the run button of page 2. *)
Click_2 ==
    /\ all_files_uploaded_2(widgets)
    /\ LET res == Process_2(widgets)
           reset == Reset_2
       IN  session' =
             IF res.ok
             THEN SetKeys(SetKeys(session, reset),
                          [geo_processing_done |-> TRUE,
                           geo_success_df |-> DF(res.success_df),
                           geo_failed_df |-> DF(res.failed_df),
                           geo_log_messages |-> res.log])
             ELSE SetKeys(SetKeys(session, reset),
                          [geo_error_message |-> res.err, geo_log_messages |-> res.log])
    /\ UNCHANGED widgets

Run_2 == Click_2 /\ UNCHANGED call

-----------------------------------------------------------------------------
(* The inputs of page 1.  One input is varied over all its values up to    *)
(* the bounds while the others are taken from a short list.                *)

T(chars) == Str(chars)

S1 == T(<<"S", "1">>)

S_1 == T(<<"S", "-", "1">>)

S1_padded == T(<<" ", "S", "1", " ">>)

Blank == T(<<" ">>)

C1 == T(<<"C", "1">>)

C_1 == T(<<"C", "-", "1">>)

P100 == T(<<"1", "0", "0">>)

P200 == T(<<"2", "0", "0">>)

SalesRow_1(sup, con) == [supplier_code |-> sup, consignee_code |-> con]

SalesRows_1 ==
    {SalesRow_1(S1, C1), SalesRow_1(S_1, C_1), SalesRow_1(S1_padded, C1),
     SalesRow_1(Blank, NaN)}

MasterRow(code, postal) == [code |-> code, postal |-> postal]

SupplierMasterRows == {MasterRow(c, p) : c \in {S1, S_1, NaN}, p \in {P100, P200, NaN}}

ConsigneeMasterRows == {MasterRow(c, p) : c \in {C1, C_1, NaN}, p \in {P100, P200, NaN}}

SalesFile_1(rows) == File(DecodeAscii, required_sales_cols, rows)

SupplierFile(rows) == File(DecodeAscii, required_supplier_cols, rows)

ConsigneeFile(rows) == File(DecodeAscii, required_consignee_cols, rows)

SomeSales_1 ==
    {<<SalesFile_1(<<SalesRow_1(S1, C1)>>), SalesFile_1(<<SalesRow_1(S_1, C_1)>>)>>,
     <<SalesFile_1(<<SalesRow_1(S1_padded, C1)>>), SalesFile_1(<<SalesRow_1(S1, C_1)>>)>>}

SomeSupplierMasters ==
    {SupplierFile(<<MasterRow(S_1, P100)>>),
     SupplierFile(<<MasterRow(S1, P100), MasterRow(S_1, P200)>>)}

SomeConsigneeMasters ==
    {ConsigneeFile(<<MasterRow(C_1, P200)>>)}

(* Files that differ in what the encodings and the column check make of them. *)
FileShapes(required, rows) ==
    {File(d, c, rows) : d \in {DecodeAscii, DecodeCp932, DecodeNone, DecodeBroken},
                        c \in {required, {}}}

NoWidgets ==
    [sales_uploader |-> <<>>, supplier_uploader |-> NoFile,
     consignee_uploader |-> NoFile,
     code_list_uploader |-> NoFile, geocode_uploader |-> NoFile,
     sales_uploader_co2 |-> <<>>, geocoded_list_uploader |-> NoFile,
     co2_factor |-> 230]

Widgets_1(sales, sup, con) ==
    [NoWidgets EXCEPT !.sales_uploader = sales, !.supplier_uploader = sup,
                      !.consignee_uploader = con]

Inputs_1 ==
    {Widgets_1(sales, sup, con) :
        sales \in SeqUpTo({SalesFile_1(rows) : rows \in SeqUpTo(SalesRows_1, MaxFileRows)},
                          MaxFiles),
        sup \in {SupplierFile(<<MasterRow(S1, P100), MasterRow(S_1, P200)>>)},
        con \in SomeConsigneeMasters}
    \cup
    {Widgets_1(sales, SupplierFile(rows), con) :
        sales \in SomeSales_1, rows \in SeqUpTo(SupplierMasterRows, MaxMasterRows),
        con \in SomeConsigneeMasters}
    \cup
    {Widgets_1(sales, sup, ConsigneeFile(rows)) :
        sales \in SomeSales_1, sup \in SomeSupplierMasters,
        rows \in SeqUpTo(ConsigneeMasterRows, MaxMasterRows)}
    \cup
    {Widgets_1(<<sales>>, sup, con) :
        sales \in FileShapes(required_sales_cols, <<SalesRow_1(S1, C1)>>),
        sup \in FileShapes(required_supplier_cols, <<MasterRow(S1, P100)>>) \cup {NoFile},
        con \in FileShapes(required_consignee_cols, <<MasterRow(C1, P100)>>)}

Init_1 == widgets \in Inputs_1 /\ session = <<>> /\ call = NoCall

Next_1 == Run_1

Spec1 == Init_1 /\ [][Next_1]_vars

-----------------------------------------------------------------------------
(* Page 1: what a finished run stored, and what it was given.              *)

Done_1 == Get(session, "processing_done", FALSE)

Success_1 == session["success_df"].rows

Failed_1 == session["failed_df"].rows

InputSalesRows_1 ==
    Concat([i \in 1..Len(widgets.sales_uploader) |-> widgets.sales_uploader[i].rows])

(* The (kind, code) pairs of the sales rows: codes present, trimmed, not   *)
(* blank.                                                                  *)
CodeTexts(rows, column) ==
    {strip(rows[i][column].s) : i \in {j \in 1..Len(rows) : ~isna(rows[j][column])}}
        \ {<<>>}

ExpectedPairs_1 ==
    {<<KindSupplier, c>> : c \in CodeTexts(InputSalesRows_1, "supplier_code")}
        \cup {<<KindConsignee, c>> : c \in CodeTexts(InputSalesRows_1, "consignee_code")}

OutputPairs_1 ==
    Map(Success_1, LAMBDA r : <<r.code_type, r.code.s>>)
        \o Map(Failed_1, LAMBDA r : <<r.code_type, r.code.s>>)

Occurrences(seq, x) == Cardinality({i \in 1..Len(seq) : seq[i] = x})

NonNullCodes_1 ==
    Cardinality({i \in 1..Len(InputSalesRows_1) : ~isna(InputSalesRows_1[i].supplier_code)})
        + Cardinality({i \in 1..Len(InputSalesRows_1) :
                          ~isna(InputSalesRows_1[i].consignee_code)})

(* The rows of a master, as uploaded, that have a code and a postal code   *)
(* and whose code, normalized by norm, is c.                               *)
MasterEntries(rows, norm(_), c) ==
    {i \in 1..Len(rows) :
        ~isna(rows[i].code) /\ ~isna(rows[i].postal) /\ norm(rows[i].code.s) = c}

SetMax(S) == CHOOSE x \in S : \A y \in S : y <= x

SupplierNorm(s) == RemoveHyphens(strip(s))

ConsigneeNorm(s) == strip(s)

SupplierRows == widgets.supplier_uploader.rows

ConsigneeRows == widgets.consignee_uploader.rows

HasDuplicateCodes(rows, norm(_)) ==
    \E i, j \in 1..Len(rows) :
        /\ i < j
        /\ ~isna(rows[i].code) /\ ~isna(rows[i].postal)
        /\ j \in MasterEntries(rows, norm, norm(rows[i].code.s))

(* C1.  Stage 1 conservation: after a finished run every distinct          *)
(* normalized (kind, code) pair of the sales data, with a code that is     *)
(* present and not blank, is exactly once in the success and failure       *)
(* tables taken together, nothing else is in them, and so their sizes add  *)
(* up to the number of distinct pairs, whatever duplicates the masters     *)
(* hold.                                                                   *)
C1_Conservation ==
    Done_1 =>
        /\ Len(Success_1) + Len(Failed_1) = Cardinality(ExpectedPairs_1)
        /\ \A p \in ExpectedPairs_1 : Occurrences(OutputPairs_1, p) = 1
        /\ \A i \in 1..Len(OutputPairs_1) : OutputPairs_1[i] \in ExpectedPairs_1

(* A finished run on sales data with a repeated code and a supplier master *)
(* with a repeated code, with both result tables filled.                   *)
C1_Witness ==
    /\ Done_1
    /\ NonNullCodes_1 > Cardinality(ExpectedPairs_1)
    /\ HasDuplicateCodes(SupplierRows, SupplierNorm)
    /\ Success_1 # <<>>
    /\ Failed_1 # <<>>

(* C3 as stated.  A sales supplier code with hyphens is linked to the      *)
(* supplier-master entry whose code is that code without the hyphens: the  *)
(* code is in the success table.                                           *)
C3_AsStated ==
    Done_1 =>
        \A c \in CodeTexts(InputSalesRows_1, "supplier_code") :
            (/\ RemoveHyphens(c) # c
             /\ \E i \in 1..Len(SupplierRows) :
                    /\ ~isna(SupplierRows[i].code) /\ ~isna(SupplierRows[i].postal)
                    /\ strip(SupplierRows[i].code.s) = RemoveHyphens(c))
            => \E k \in 1..Len(Success_1) :
                    Success_1[k].code_type = KindSupplier /\ Success_1[k].code.s = c

(* C3, amended.  The hyphens are removed from the codes of the supplier    *)
(* master, not from the codes of the sales data: a sales supplier code is  *)
(* in the success table, with the postal code of the last master entry     *)
(* concerned, when it equals the code of a supplier-master entry with the  *)
(* hyphens removed from the master's code; a sales supplier code that      *)
(* holds a hyphen itself is in the failure table.                          *)
C3_MasterHyphens ==
    Done_1 =>
        \A c \in CodeTexts(InputSalesRows_1, "supplier_code") :
            /\ MasterEntries(SupplierRows, SupplierNorm, c) # {}
                => \E k \in 1..Len(Success_1) :
                      /\ Success_1[k].code_type = KindSupplier
                      /\ Success_1[k].code.s = c
                      /\ Success_1[k].postal =
                            SupplierRows[SetMax(MasterEntries(SupplierRows, SupplierNorm, c))].postal
            /\ RemoveHyphens(c) # c
                => \E k \in 1..Len(Failed_1) :
                      Failed_1[k].code_type = KindSupplier /\ Failed_1[k].code.s = c

(* A finished run in which the master's "S-1" gave the sales code "S1" its *)
(* postal code while the sales code "S-1" found none.                      *)
C3_Witness ==
    /\ Done_1
    /\ \E i \in 1..Len(SupplierRows) :
          /\ SupplierRows[i].code = S_1 /\ ~isna(SupplierRows[i].postal)
          /\ \A j \in 1..Len(SupplierRows) : ~isna(SupplierRows[j].code) => SupplierRows[j].code = S_1
    /\ \E k \in 1..Len(Success_1) :
          Success_1[k].code_type = KindSupplier /\ Success_1[k].code = S1
    /\ \E k \in 1..Len(Failed_1) :
          Failed_1[k].code_type = KindSupplier /\ Failed_1[k].code = S_1

(* C4.  Master dedup direction: for either master, a code of the sales     *)
(* data gets the postal code of the last row, in source order, among the   *)
(* master's rows that have a code and a postal code and the same           *)
(* normalized code (trimmed; for the supplier master also without          *)
(* hyphens); it is once in the success table with that postal code, and in *)
(* the failure table when there is no such row.                            *)
C4_LastWins ==
    Done_1 =>
        /\ \A c \in CodeTexts(InputSalesRows_1, "supplier_code") :
              LET e == MasterEntries(SupplierRows, SupplierNorm, c)
                  hits == {k \in 1..Len(Success_1) :
                              Success_1[k].code_type = KindSupplier /\ Success_1[k].code.s = c}
              IN  IF e = {} THEN hits = {}
                  ELSE /\ Cardinality(hits) = 1
                       /\ \A k \in hits : Success_1[k].postal = SupplierRows[SetMax(e)].postal
        /\ \A c \in CodeTexts(InputSalesRows_1, "consignee_code") :
              LET e == MasterEntries(ConsigneeRows, ConsigneeNorm, c)
                  hits == {k \in 1..Len(Success_1) :
                              Success_1[k].code_type = KindConsignee /\ Success_1[k].code.s = c}
              IN  IF e = {} THEN hits = {}
                  ELSE /\ Cardinality(hits) = 1
                       /\ \A k \in hits : Success_1[k].postal = ConsigneeRows[SetMax(e)].postal

(* A finished run whose supplier master holds "S1" and then "S-1" with     *)
(* another postal code, and whose success table gives "S1" the later one.  *)
C4_Witness ==
    /\ Done_1
    /\ Len(SupplierRows) = 2
    /\ SupplierRows[1] = MasterRow(S1, P100)
    /\ SupplierRows[2] = MasterRow(S_1, P200)
    /\ \E k \in 1..Len(Success_1) :
          /\ Success_1[k].code_type = KindSupplier
          /\ Success_1[k].code = S1
          /\ Success_1[k].postal = P200

-----------------------------------------------------------------------------
(* The inputs of page 2.                                                   *)

K1 == T(<<"1", "2", "3", "4", "5", "6", "7">>)

K1_hyphen == T(<<"1", "2", "3", "-", "4", "5", "6", "7">>)

K1_padded == T(<<" ", "1", "2", "3", "4", "5", "6", "7", " ">>)

K2 == T(<<"1", "0", "0", "0", "0", "0", "0">>)

FiveDigits == T(<<"1", "2", "3", "4", "5">>)

Letters == T(<<"A", "B", "C", "D", "E", "F", "G">>)

FullWidth == T(<<"FW1", "FW2", "FW3", "FW4", "FW5", "FW6", "FW7">>)

PostalCells == {K1, K1_hyphen, K1_padded, K2, FiveDigits, Letters, FullWidth, NaN}

CodeRow(kind, code, postal) == [code_type |-> kind, code |-> code, postal |-> postal]

CodeListRows == {CodeRow(KindSupplier, S1, p) : p \in PostalCells}

GeoRow(postal, lat, lon) == [postal_cd |-> postal, latitude |-> lat, longitude |-> lon]

NotANumber == T(<<"x">>)

GeocodeRows ==
    {GeoRow(K2, Num(10), Num(20)),
     GeoRow(K2, Num(12), Num(22)),
     GeoRow(K2, NotANumber, Num(26)),
     GeoRow(K2, Num(13), NaN),
     GeoRow(K1, Num(30), Num(40)),
     GeoRow(K1_hyphen, T(<<"3", "3">>), T(<<"4", "1">>)),
     GeoRow(FiveDigits, Num(50), Num(60)),
     GeoRow(FullWidth, Num(70), Num(80))}

CodeListFile(rows) == File(DecodeAscii, required_code_list_cols, rows)

GeocodeFile(rows) == File(DecodeAscii, required_geocode_cols, rows)

SomeCodeLists ==
    {CodeListFile(<<CodeRow(KindSupplier, S1, K1), CodeRow(KindConsignee, C1, K2)>>),
     CodeListFile(<<CodeRow(KindSupplier, S1, K1_hyphen),
                    CodeRow(KindConsignee, C1, FullWidth)>>)}

SomeGeocodes ==
    {GeocodeFile(<<GeoRow(K1, Num(10), Num(20)), GeoRow(K1_hyphen, Num(12), Num(22))>>),
     GeocodeFile(<<GeoRow(K1, NotANumber, Num(26)), GeoRow(FullWidth, Num(70), Num(80))>>),
     GeocodeFile(<<>>)}

Widgets_2(codes, geo) ==
    [NoWidgets EXCEPT !.code_list_uploader = codes, !.geocode_uploader = geo]

Inputs_2 ==
    {Widgets_2(CodeListFile(rows), geo) :
        rows \in SeqUpTo(CodeListRows, MaxCodeRows), geo \in SomeGeocodes}
    \cup
    {Widgets_2(codes, GeocodeFile(rows)) :
        codes \in SomeCodeLists, rows \in SeqUpTo(GeocodeRows, MaxGeoRows)}
    \cup
    {Widgets_2(codes, geo) :
        codes \in FileShapes(required_code_list_cols, <<CodeRow(KindSupplier, S1, K1)>>)
                    \cup {NoFile},
        geo \in FileShapes(required_geocode_cols, <<GeoRow(K1, Num(10), Num(20))>>)}

Init_2 == widgets \in Inputs_2 /\ session = <<>> /\ call = NoCall

Next_2 == Run_2

Spec2 == Init_2 /\ [][Next_2]_vars

-----------------------------------------------------------------------------
(* Page 2: what a finished run stored, and what it was given.              *)

Done_2 == Get(session, "geo_processing_done", FALSE)

Success_2 == session["geo_success_df"].rows

Failed_2 == session["geo_failed_df"].rows

CodeListInput == widgets.code_list_uploader.rows

GeocodeInput == widgets.geocode_uploader.rows

(* A postal cell as trimmed text, and with the hyphens removed as well. *)
PostalText(cell) == strip(astype_str(cell))

PostalKeyOf(cell) == RemoveHyphens(PostalText(cell))

(* Exactly seven characters, each an ASCII digit. *)
SevenAsciiDigits(s) ==
    Len(s) = PostalDigits /\ \A i \in 1..Len(s) : s[i] \in AsciiDigits

(* A code-list row as the output tables show it. *)
Shown(r) == <<r.code_type, r.code, Str(PostalText(r.postal))>>

Outputs_2 == Map(Success_2, Shown) \o Map(Failed_2, Shown)

IsNumeric(x) == ~isna(to_numeric(x))

(* The geocode rows, as uploaded, with the key k and both coordinates      *)
(* numeric.                                                                *)
ContributingRows(k) ==
    SelectSeq(GeocodeInput,
              LAMBDA r : /\ PostalKeyOf(r.postal_cd) = k
                         /\ IsNumeric(r.latitude) /\ IsNumeric(r.longitude))

(* C5 as stated.  Postal validity: a code-list row is carried into the     *)
(* outputs of Stage 2 if and only if its postal code, trimmed and without  *)
(* hyphens, is exactly seven ASCII digits, and a row is matched if and     *)
(* only if a geocode row with numeric coordinates has the same key, itself *)
(* seven ASCII digits.                                                     *)
C5_AsStated ==
    Done_2 =>
        /\ \A i \in 1..Len(CodeListInput) :
              (\E k \in 1..Len(Outputs_2) : Outputs_2[k] = Shown(CodeListInput[i]))
                  <=> SevenAsciiDigits(PostalKeyOf(CodeListInput[i].postal))
        /\ \A k \in 1..Len(Success_2) :
              /\ SevenAsciiDigits(PostalKeyOf(Success_2[k].postal))
              /\ ContributingRows(PostalKeyOf(Success_2[k].postal)) # <<>>
        /\ \A k \in 1..Len(Failed_2) :
              ContributingRows(PostalKeyOf(Failed_2[k].postal)) = <<>>

(* C6.  Geo averaging: the coordinates of every matched row are the        *)
(* arithmetic means of the latitudes and of the longitudes of all geocode  *)
(* rows that have the row's postal key and both coordinates numeric; the   *)
(* other geocode rows have no part in them.                                *)
C6_ArithmeticMean ==
    Done_2 =>
        \A k \in 1..Len(Success_2) :
            LET rows == ContributingRows(PostalKeyOf(Success_2[k].postal))
                lats == Map(rows, LAMBDA r : to_numeric(r.latitude).n)
                lons == Map(rows, LAMBDA r : to_numeric(r.longitude).n)
            IN  /\ rows # <<>>
                /\ Success_2[k].lat.num * Len(rows) = Sum(lats) * Success_2[k].lat.den
                /\ Success_2[k].lon.num * Len(rows) = Sum(lons) * Success_2[k].lon.den

(* A finished run on the geocode rows (1000000, 10, 20), (1000000, 12, 22) *)
(* and a row of the same key without a numeric latitude, that gave the     *)
(* postal code 1000000 the point (11, 21).                                 *)
C6_Witness ==
    /\ Done_2
    /\ \E i, j, n \in 1..Len(GeocodeInput) :
          /\ GeocodeInput[i] = GeoRow(K2, Num(10), Num(20))
          /\ GeocodeInput[j] = GeoRow(K2, Num(12), Num(22))
          /\ GeocodeInput[n] = GeoRow(K2, NotANumber, Num(26))
    /\ \E k \in 1..Len(Success_2) :
          /\ Success_2[k].postal = K2
          /\ Success_2[k].lat = Fraction(11, 1)
          /\ Success_2[k].lon = Fraction(21, 1)

(* C7 as stated.  Stage 2 partition: a code-list row whose postal code is  *)
(* not seven ASCII digits once trimmed and without hyphens is in neither   *)
(* output; every other row is in exactly one output, the matched one with  *)
(* both coordinates if and only if the averaged reference table has its    *)
(* key, else the unmatched one with the fixed reason; the sizes of the two *)
(* outputs add up to the number of rows with such a key.                   *)
C7_AsStated ==
    Done_2 =>
        LET valid == {i \in 1..Len(CodeListInput) :
                         SevenAsciiDigits(PostalKeyOf(CodeListInput[i].postal))}
            Same(i) == {j \in valid : Shown(CodeListInput[j]) = Shown(CodeListInput[i])}
        IN  /\ \A i \in (1..Len(CodeListInput)) \ valid :
                  Occurrences(Outputs_2, Shown(CodeListInput[i])) = 0
            /\ \A i \in valid :
                  /\ Occurrences(Outputs_2, Shown(CodeListInput[i])) = Cardinality(Same(i))
                  /\ IF ContributingRows(PostalKeyOf(CodeListInput[i].postal)) # <<>>
                     THEN Occurrences(Map(Failed_2, Shown), Shown(CodeListInput[i])) = 0
                     ELSE Occurrences(Map(Success_2, Shown), Shown(CodeListInput[i])) = 0
            /\ \A k \in 1..Len(Success_2) :
                  ~isna(Success_2[k].lat) /\ ~isna(Success_2[k].lon)
            /\ \A k \in 1..Len(Failed_2) : Failed_2[k].reason = FailureReason
            /\ Len(Success_2) + Len(Failed_2) = Cardinality(valid)

-----------------------------------------------------------------------------
(* Page 3: src/pages/3_....py                                              *)
(*                                                                         *)
(* Numbers are in fixed point.  A coordinate cell Num(n) stands for        *)
(* n / 10^7 degrees.  A distance before rounding is a whole number         *)
(* of 1e-6 km, a distance rounded to 5 decimals a whole number of 1e-5 km. *)
(* A quantity is a whole number of tons, the emission factor a whole       *)
(* number of g per ton-km.  An amount of CO2 is a pair: the whole grams    *)
(* and the fraction, in 1e-6 g before rounding and in 1e-5 g after it.     *)

MicroPerUnit == 1000000

Decimals5 == 100000

Pt0 == <<350000000, 1390000000>>

PtNear == <<351000000, 1391000000>>

PtAt600 == <<350000000, 1455884090>>

PtOver600 == <<350000000, 1455884091>>

PtFar == <<430000000, 1410000000>>

PtNorth == <<411000000, 1370000000>>

(* The antipode of PtNorth. *)
PtAntipode == <<-411000000, -430000000>>

(* Lines 10-13 evaluated in IEEE double precision on pairs of the points   *)
(* above (latitude, longitude), to the nearest 1e-6 km.                    *)
HaversineTable ==
    <<Pt0, Pt0>> :> 0 @@ <<Pt0, PtAt600>> :> 600000004
    @@ <<Pt0, PtOver600>> :> 600000014 @@ <<Pt0, PtNear>> :> 14370366
    @@ <<Pt0, PtFar>> :> 906112894
    @@ <<PtAt600, Pt0>> :> 600000004 @@ <<PtAt600, PtAt600>> :> 0
    @@ <<PtAt600, PtOver600>> :> 9 @@ <<PtAt600, PtNear>> :> 590639278
    @@ <<PtAt600, PtFar>> :> 973519803
    @@ <<PtOver600, Pt0>> :> 600000014 @@ <<PtOver600, PtAt600>> :> 9
    @@ <<PtOver600, PtOver600>> :> 0 @@ <<PtOver600, PtNear>> :> 590639287
    @@ <<PtOver600, PtFar>> :> 973519807
    @@ <<PtNear, Pt0>> :> 14370366 @@ <<PtNear, PtAt600>> :> 590639278
    @@ <<PtNear, PtOver600>> :> 590639287 @@ <<PtNear, PtNear>> :> 0
    @@ <<PtNear, PtFar>> :> 893559333
    @@ <<PtFar, Pt0>> :> 906112894 @@ <<PtFar, PtAt600>> :> 973519803
    @@ <<PtFar, PtOver600>> :> 973519807 @@ <<PtFar, PtNear>> :> 893559333
    @@ <<PtFar, PtFar>> :> 0
    @@ <<PtNorth, PtNorth>> :> 0 @@ <<PtAntipode, PtAntipode>> :> 0

(* Pairs of points on which line 13 raises ValueError (math domain error): *)
(* the value a of line 12 comes out above 1 and math.sqrt(1 - a) gets a    *)
(* negative argument.                                                      *)
HaversineDomainErrors == {<<PtNorth, PtAntipode>>, <<PtAntipode, PtNorth>>}

Raise(type) == [t |-> "raise", type |-> type]

(* haversine with only its first argument tested for a missing value. *)
HaversineTestingFirstArgument(lat1, lon1, lat2, lon2) ==
    IF isna(lat1) THEN NaN
    ELSE IF \E x \in {lat1, lon1, lat2, lon2} : x.t # "num" THEN Raise("TypeError")
    ELSE IF <<<<lat1.n, lon1.n>>, <<lat2.n, lon2.n>>>> \in HaversineDomainErrors
    THEN Raise("ValueError")
    ELSE Num(HaversineTable[<<<<lat1.n, lon1.n>>, <<lat2.n, lon2.n>>>>])

(* Lines 8-13: missing when an argument is missing; math.radians raises    *)
(* TypeError on a text; math.sqrt raises ValueError on some nearly         *)
(* antipodal pairs; else the distance, in 1e-6 km.                         *)
haversine(lat1, lon1, lat2, lon2) ==
    IF isna(lat1) \/ isna(lon1) \/ isna(lat2) \/ isna(lon2) THEN NaN
    ELSE IF \E x \in {lat1, lon1, lat2, lon2} : x.t # "num" THEN Raise("TypeError")
    ELSE IF <<<<lat1.n, lon1.n>>, <<lat2.n, lon2.n>>>> \in HaversineDomainErrors
    THEN Raise("ValueError")
    ELSE Num(HaversineTable[<<<<lat1.n, lon1.n>>, <<lat2.n, lon2.n>>>>])

(* round(5) of a value given in 1e-6: the nearest 1e-5, a tie to the even  *)
(* digit.                                                                  *)
round5(x) ==
    LET q == x \div 10
        r == x % 10
    IN  IF r > 5 \/ (r = 5 /\ q % 2 = 1) THEN q + 1 ELSE q

(* distance * quantity * factor, exactly, for a distance in 1e-6 km. *)
co2_product(distance, quantity, factor) ==
    LET m == quantity * factor
        low == (distance % MicroPerUnit) * m
    IN  [g |-> (distance \div MicroPerUnit) * m + low \div MicroPerUnit,
         micro |-> low % MicroPerUnit]

(* round(5) of an amount of CO2. *)
round5_co2(c) ==
    IF round5(c.micro) = Decimals5 THEN [g |-> c.g + 1, e5 |-> 0]
    ELSE [g |-> c.g, e5 |-> round5(c.micro)]

required_sales_cols_3 == {"supplier_code", "consignee_code", "qty"}

required_geocoded_cols == {"code_type", "code", "lat", "lon"}

added_cols ==
    {"supplier_lat", "supplier_lon", "consignee_lat", "consignee_lon",
     "distance_km", "co2_g"}

ErrUnexpected(type) == [t |-> "err", msg |-> "unexpected error", type |-> type]

(* str(ve) of the ValueError raised by math.sqrt. *)
ErrMathDomain == [t |-> "err", msg |-> "math domain error"]

(* Lines 99-107: every sales file is read, in upload order; no column is   *)
(* checked here.                                                           *)
ReadSalesFiles_3(files) ==
    LET F[i \in 0..Len(files)] ==
            IF i = 0 THEN [ok |-> TRUE, dfs |-> <<>>, log |-> <<"read sales">>]
            ELSE LET prev == F[i - 1]
                     r == read_csv_with_fallback_3(files[i])
                 IN  IF ~prev.ok THEN prev
                     ELSE IF ~r.ok
                     THEN [ok |-> FALSE, err |-> r.err, log |-> Append(prev.log, "try")]
                     ELSE [ok |-> TRUE, dfs |-> Append(prev.dfs, files[i]),
                           log |-> prev.log \o <<"try", "read">>]
    IN  F[Len(files)]

(* A row of one file in the concatenated table: a column the file lacks is *)
(* missing in its rows.                                                    *)
AlignRow(r, cols) == [c \in DOMAIN r |-> IF c \in cols THEN r[c] ELSE NaN]

(* Line 109: pd.concat(sales_dfs, ignore_index=True). *)
sales_data_raw(dfs) ==
    [cols |-> UNION {dfs[i].cols : i \in 1..Len(dfs)},
     rows |-> Concat([i \in 1..Len(dfs) |->
                         Map(dfs[i].rows, LAMBDA r : AlignRow(r, dfs[i].cols))])]

(* Lines 114-123. *)
ReadGeocodedList(file) ==
    LET r == read_csv_with_fallback_3(file)
    IN  IF ~r.ok THEN [ok |-> FALSE, err |-> r.err, log |-> <<"geocoded list", "try">>]
        ELSE IF ~(required_geocoded_cols \subseteq file.cols)
        THEN [ok |-> FALSE, err |-> ErrSchema("geocoded list"),
              log |-> <<"geocoded list", "try">>]
        ELSE [ok |-> TRUE, df |-> file.rows, log |-> <<"geocoded list", "try", "read">>]

(* Lines 133-135: the codes as trimmed text, the quantity as a number, 0   *)
(* when it is not one.                                                     *)
PrepareSales_3(rows) ==
    Map(rows, LAMBDA r :
        [r EXCEPT !.supplier_code = Str(strip(astype_str(r.supplier_code))),
                  !.consignee_code = Str(strip(astype_str(r.consignee_code)))]
        @@ [qty_ton |-> IF isna(to_numeric(r.qty)) THEN 0 ELSE to_numeric(r.qty).n])

(* Lines 137-141: the code as trimmed text, the coordinates as numbers,    *)
(* and only the rows that have both.                                       *)
geo_list(rows) ==
    SelectSeq(Map(rows, LAMBDA r :
                  [code_type |-> r.code_type, code |-> Str(strip(astype_str(r.code))),
                   lat |-> to_numeric(r.lat), lon |-> to_numeric(r.lon)]),
              LAMBDA r : ~isna(r.lat) /\ ~isna(r.lon))

(* Lines 142-143. *)
geo_supplier(rows) == drop_duplicates_keep_first(OfKind(rows, KindSupplier))

geo_consignee(rows) == drop_duplicates_keep_first(OfKind(rows, KindConsignee))

(* Lines 149-151 and 152-154: the left merge on the code, the renaming of  *)
(* the columns called lat and lon, and the removal of the column called    *)
(* code.  A column of the left table with one of these names keeps its     *)
(* name in the merge (suffix ''), so it is the one renamed or removed.     *)
MergeGeo(left, right, left_on, lat_name, lon_name) ==
    LET Matches(l) == SelectSeq(right, LAMBDA r : r.code = l[left_on])
        Row(l, lat, lon) ==
            (lat_name :> (IF "lat" \in left.cols THEN l.lat ELSE lat)
                @@ lon_name :> (IF "lon" \in left.cols THEN l.lon ELSE lon))
            @@ [l EXCEPT !.code = None, !.lat = None, !.lon = None]
        Joined(l) ==
            IF Matches(l) = <<>> THEN <<Row(l, NaN, NaN)>>
            ELSE [k \in 1..Len(Matches(l)) |->
                    Row(l, Matches(l)[k].lat, Matches(l)[k].lon)]
    IN  [cols |-> (left.cols \ {"code", "lat", "lon"}) \cup {lat_name, lon_name},
         rows |-> Concat([i \in 1..Len(left.rows) |-> Joined(left.rows[i])])]

(* Line 160. *)
distances(rows) ==
    Map(rows, LAMBDA r : haversine(r.supplier_lat, r.supplier_lon,
                                   r.consignee_lat, r.consignee_lon))

(* Line 161: fillna(0). *)
distance_km(d) == IF isna(d) THEN 0 ELSE d.n

(* The amount computed from the distance already rounded. *)
CO2FromRoundedDistance(distance, qty_ton, factor) ==
    co2_product(round5(distance) * 10, qty_ton, factor)

(* Line 167. *)
CO2_g(distance, qty_ton, factor) == co2_product(distance, qty_ton, factor)

(* Lines 173-179: one row of result_df_all, with the index it has in       *)
(* merged_data.                                                            *)
ResultRow(r, index, distance, factor) ==
    [index |-> index,
     supplier_code |-> r.supplier_code, consignee_code |-> r.consignee_code,
     qty |-> r.qty, code |-> r.code, lat |-> r.lat, lon |-> r.lon,
     supplier_lat |-> r.supplier_lat, supplier_lon |-> r.supplier_lon,
     consignee_lat |-> r.consignee_lat, consignee_lon |-> r.consignee_lon,
     distance_km |-> round5(distance),
     co2_g |-> round5_co2(CO2_g(distance, r.qty_ton, factor))]

ThresholdKm == 600

(* The rows below the threshold only. *)
NormalRowsBelowThreshold(rows) ==
    SelectSeq(rows, LAMBDA r : r.distance_km < ThresholdKm * Decimals5)

(* Line 180. *)
normal_result_df(rows) ==
    SelectSeq(rows, LAMBDA r : r.distance_km <= ThresholdKm * Decimals5)

(* Line 181. *)
anomaly_result_df(rows) ==
    SelectSeq(rows, LAMBDA r : r.distance_km > ThresholdKm * Decimals5)

Table(cols, rows) == [t |-> "df", cols |-> cols, rows |-> rows]

(* Lines 91-190: the try block of page 3.  'counted' tells whether line    *)
(* 111 stored the number of input rows before the run ended.               *)
Process_3(w) ==
    LET sales == ReadSalesFiles_3(w.sales_uploader_co2)
        log0 == <<"log", "read">>
    IN  IF ~sales.ok
        THEN [ok |-> FALSE, counted |-> FALSE, err |-> sales.err, log |-> log0 \o sales.log]
        ELSE IF sales.dfs = <<>>
        THEN [ok |-> FALSE, counted |-> FALSE,
              err |-> [t |-> "err", msg |-> "no sales file"], log |-> log0 \o sales.log]
        ELSE
        LET raw == sales_data_raw(sales.dfs)
            input_row_count == Len(raw.rows)
            geo == ReadGeocodedList(w.geocoded_list_uploader)
            log1 == log0 \o sales.log \o <<"concat">> \o geo.log
            Failed(err, log) ==
                [ok |-> FALSE, counted |-> TRUE, input_count |-> input_row_count,
                 err |-> err, log |-> log]
        IN  IF ~geo.ok THEN Failed(geo.err, log1)
            ELSE IF ~(required_sales_cols_3 \subseteq raw.cols)
            THEN Failed(ErrSchema("sales"), log1 \o <<"prepare">>)
            ELSE
            LET sales_data == [cols |-> raw.cols \cup {"qty_ton"},
                               rows |-> PrepareSales_3(raw.rows)]
                geo_rows == geo_list(geo.df)
                with_supplier == MergeGeo(sales_data, geo_supplier(geo_rows),
                                          "supplier_code", "supplier_lat", "supplier_lon")
                merged_data == MergeGeo(with_supplier, geo_consignee(geo_rows),
                                        "consignee_code", "consignee_lat", "consignee_lon")
                ds == distances(merged_data.rows)
                log2 == log1 \o <<"prepare", "prepared", "merged", "distance">>
                raising == {i \in 1..Len(ds) : ds[i].t = "raise"}
            IN  IF raising # {}
                THEN Failed(IF ds[CHOOSE i \in raising : \A j \in raising : i <= j].type
                                  = "TypeError"
                            THEN ErrUnexpected("TypeError") ELSE ErrMathDomain,
                            log2)
                ELSE
                LET result_df_all ==
                        [i \in 1..Len(ds) |->
                            ResultRow(merged_data.rows[i], i, distance_km(ds[i]),
                                      w.co2_factor)]
                    final_cols_exist ==
                        {c \in raw.cols \cup added_cols :
                            c \in merged_data.cols \cup {"distance_km", "co2_g"}}
                IN  [ok |-> TRUE, input_count |-> input_row_count,
                     normal |-> Table(final_cols_exist, normal_result_df(result_df_all)),
                     anomaly |-> Table(final_cols_exist, anomaly_result_df(result_df_all)),
                     log |-> log2 \o <<"distance done", "co2", "rounded", "split">>]

(* Lines 69-71. *)
all_files_uploaded_3(w) ==
    /\ Len(w.sales_uploader_co2) > 0
    /\ Len(w.sales_uploader_co2) <= MaxSalesFiles
    /\ w.geocoded_list_uploader.present

(* A reset of page 3 that uses the error key of page 1 as well. *)
ResetSharingErrorKey_3 ==
    [co2_processing_done |-> FALSE, co2_input_count |-> 0,
     co2_normal_result_df |-> None, co2_normal_count |-> 0,
     co2_anomaly_result_df |-> None, co2_anomaly_count |-> 0,
     co2_error_message |-> None, co2_log_messages |-> <<>>,
     co2_button_clicked |-> TRUE, error_message |-> None]

(* Lines 77-85. *)
Reset_3 ==
    [co2_processing_done |-> FALSE, co2_input_count |-> 0,
     co2_normal_result_df |-> None, co2_normal_count |-> 0,
     co2_anomaly_result_df |-> None, co2_anomaly_count |-> 0,
     co2_error_message |-> None, co2_log_messages |-> <<>>,
     co2_button_clicked |-> TRUE]

(* Lines 75-204: a click on the run button of page 3. *)
Click_3 ==
    /\ all_files_uploaded_3(widgets)
    /\ LET res == Process_3(widgets)
           reset == Reset_3
       IN  session' =
             IF res.ok
             THEN SetKeys(SetKeys(session, reset),
                          [co2_input_count |-> res.input_count,
                           co2_normal_count |-> Len(res.normal.rows),
                           co2_anomaly_count |-> Len(res.anomaly.rows),
                           co2_processing_done |-> TRUE,
                           co2_normal_result_df |-> res.normal,
                           co2_anomaly_result_df |-> res.anomaly,
                           co2_log_messages |-> res.log])
             ELSE IF res.counted
             THEN SetKeys(SetKeys(session, reset),
                          [co2_input_count |-> res.input_count,
                           co2_error_message |-> res.err, co2_log_messages |-> res.log])
             ELSE SetKeys(SetKeys(session, reset),
                          [co2_error_message |-> res.err, co2_log_messages |-> res.log])
    /\ UNCHANGED widgets

Run_3 == Click_3 /\ UNCHANGED call

(* Lines 208-229: what the result area shows for a session: nothing before *)
(* the first click, the error, or the counts with the success message when *)
(* the outputs add up to the input and the warning when they do not.       *)
ResultArea_3(ss) ==
    IF ~Get(ss, "co2_button_clicked", FALSE) THEN [view |-> "none"]
    ELSE IF Get(ss, "co2_error_message", None) # None
    THEN [view |-> "error", error |-> ss["co2_error_message"]]
    ELSE IF Get(ss, "co2_processing_done", FALSE)
    THEN LET input_count == Get(ss, "co2_input_count", 0)
             normal_count == Get(ss, "co2_normal_count", 0)
             anomaly_count == Get(ss, "co2_anomaly_count", 0)
             total_output_count == normal_count + anomaly_count
         IN  [view |-> "results", input_count |-> input_count,
              normal_count |-> normal_count, anomaly_count |-> anomaly_count,
              total_output_count |-> total_output_count,
              message |-> IF input_count = total_output_count
                          THEN "success" ELSE "warning"]
    ELSE [view |-> "none"]

-----------------------------------------------------------------------------
(* The inputs of page 3.                                                   *)

S2 == T(<<"S", "2">>)

SalesRowWith(sup, con, qty, code, lat, lon) ==
    [supplier_code |-> sup, consignee_code |-> con, qty |-> qty,
     code |-> code, lat |-> lat, lon |-> lon]

(* A row of a sales table without columns called code, lat or lon. *)
SalesRow_3(sup, con, qty) == SalesRowWith(sup, con, qty, NaN, NaN, NaN)

SalesRows_3 ==
    {SalesRow_3(S1, C1, Num(2)),
     SalesRow_3(S1_padded, C_1, T(<<"3">>)),
     SalesRow_3(S1, C_1, NotANumber),
     SalesRow_3(S2, C1, Num(1)),
     SalesRow_3(S1, NaN, NaN),
     SalesRow_3(NaN, C1, Num(9))}

FewSalesRows_3 ==
    {SalesRow_3(S1, C1, Num(2)), SalesRow_3(S1, C_1, NotANumber),
     SalesRow_3(S2, C1, Num(1))}

GeoListRow(kind, code, point) ==
    [code_type |-> kind, code |-> code, lat |-> Num(point[1]), lon |-> Num(point[2])]

GeoListRows ==
    {GeoListRow(KindSupplier, S1, Pt0),
     GeoListRow(KindSupplier, S1_padded, PtFar),
     GeoListRow(KindConsignee, C1, PtAt600),
     GeoListRow(KindConsignee, C_1, PtOver600),
     GeoListRow(KindConsignee, C1, PtNear),
     [GeoListRow(KindConsignee, C_1, PtNear) EXCEPT !.lat = NotANumber],
     GeoListRow(KindSupplier, NaN, PtNear)}

SalesFile_3(rows) == File(DecodeAscii, required_sales_cols_3, rows)

(* A sales table with more columns than the required ones. *)
SalesFileWith(cols, rows) ==
    File(DecodeAscii, required_sales_cols_3 \cup cols,
         Map(rows, LAMBDA r : AlignRow(r, required_sales_cols_3 \cup cols)))

GeocodedListFile(rows) == File(DecodeAscii, required_geocoded_cols, rows)

SomeSales_3 ==
    {<<SalesFile_3(<<SalesRow_3(S1, C1, Num(2)), SalesRow_3(S2, C1, Num(1))>>),
       SalesFile_3(<<SalesRow_3(S1_padded, C_1, NotANumber)>>)>>,
     <<SalesFile_3(<<SalesRow_3(NaN, C1, Num(9)), SalesRow_3(S1, NaN, T(<<"3">>))>>)>>}

SomeGeoLists ==
    {GeocodedListFile(<<GeoListRow(KindSupplier, S1, Pt0),
                        GeoListRow(KindConsignee, C1, PtAt600),
                        GeoListRow(KindConsignee, C_1, PtOver600)>>),
     GeocodedListFile(<<GeoListRow(KindSupplier, S1_padded, PtFar),
                        GeoListRow(KindSupplier, S1, Pt0),
                        GeoListRow(KindConsignee, C1, PtNear),
                        GeoListRow(KindConsignee, C1, PtAt600),
                        [GeoListRow(KindConsignee, C_1, PtNear) EXCEPT !.lat = NotANumber],
                        GeoListRow(KindConsignee, C_1, PtOver600)>>)}

(* Sales tables that have columns called code, lat and lon themselves. *)
SalesWithGeoColumns ==
    {<<SalesFileWith(cols, <<SalesRowWith(sup, C1, Num(1), code, lat, lon)>>)>> :
        cols \in {{"code"}, {"code", "lat", "lon"}},
        sup \in {S1, S2},
        code \in {T(<<"X">>)},
        lat \in {Num(PtFar[1]), NotANumber, NaN},
        lon \in {Num(PtFar[2])}}

Factors == {230, 100}

Widgets_3(sales, geo, factor) ==
    [NoWidgets EXCEPT !.sales_uploader_co2 = sales, !.geocoded_list_uploader = geo,
                      !.co2_factor = factor]

Inputs_3 ==
    {Widgets_3(sales, geo, 230) :
        sales \in SeqUpTo({SalesFile_3(rows) : rows \in SeqUpTo(FewSalesRows_3, MaxFileRows)},
                          MaxFiles),
        geo \in SomeGeoLists}
    \cup
    {Widgets_3(<<SalesFile_3(rows)>>, geo, factor) :
        rows \in SeqUpTo(SalesRows_3, MaxRows_3), geo \in SomeGeoLists, factor \in Factors}
    \cup
    {Widgets_3(sales, GeocodedListFile(rows), 230) :
        sales \in SomeSales_3, rows \in SeqUpTo(GeoListRows, MaxGeoListRows)}
    \cup
    {Widgets_3(sales, geo, 230) : sales \in SalesWithGeoColumns, geo \in SomeGeoLists}
    \cup
    {Widgets_3(sales, geo, 230) :
        sales \in {<<f>> : f \in FileShapes(required_sales_cols_3,
                                            <<SalesRow_3(S1, C1, Num(2))>>)}
                    \cup {<<SalesFile_3(<<SalesRow_3(S1, C1, Num(2))>>), f>> :
                            f \in FileShapes(required_sales_cols_3,
                                             <<SalesRow_3(S1, C_1, Num(1))>>)}
                    \cup {<<>>},
        geo \in FileShapes(required_geocoded_cols, <<GeoListRow(KindSupplier, S1, Pt0)>>)
                    \cup {NoFile}}
    \cup
    {Widgets_3(<<SalesFile_3(<<SalesRow_3(S1, C1, Num(2))>>)>>,
               GeocodedListFile(<<GeoListRow(KindSupplier, S1, PtNorth),
                                  GeoListRow(KindConsignee, C1, PtAntipode)>>),
               230)}

Init_3 == widgets \in Inputs_3 /\ session = <<>> /\ call = NoCall

Next_3 == Run_3

Spec3 == Init_3 /\ [][Next_3]_vars

-----------------------------------------------------------------------------
(* Page 3: what a finished run stored, and what it was given.              *)

Done_3 == Get(session, "co2_processing_done", FALSE)

Normal_3 == session["co2_normal_result_df"].rows

Anomaly_3 == session["co2_anomaly_result_df"].rows

Results_3 == Normal_3 \o Anomaly_3

(* The rows of the sales files in upload order, as pandas holds them: a    *)
(* column that a file lacks is missing in its rows.                        *)
InputSalesRows_3 == sales_data_raw(widgets.sales_uploader_co2).rows

GeoListInput == widgets.geocoded_list_uploader.rows

CodeText(cell) == strip(astype_str(cell))

WithIndex(rows, i) == {k \in 1..Len(rows) : rows[k].index = i}

(* The quantity of a row as a number of tons, 0 when the cell is not a     *)
(* number.                                                                 *)
QuantityOf(cell) == IF IsNumeric(cell) THEN to_numeric(cell).n ELSE 0

(* The distance, in 1e-6 km, between the two points a result row shows, 0  *)
(* when a coordinate is missing.                                           *)
UnroundedDistance(r) ==
    IF isna(r.supplier_lat) \/ isna(r.supplier_lon)
          \/ isna(r.consignee_lat) \/ isna(r.consignee_lon)
    THEN 0
    ELSE HaversineTable[<<<<r.supplier_lat.n, r.supplier_lon.n>>,
                          <<r.consignee_lat.n, r.consignee_lon.n>>>>]

(* distance * quantity * factor, exactly, for a distance in 1e-5 km. *)
ProductOfRounded(distance, quantity, factor) ==
    LET m == quantity * factor
        low == (distance % Decimals5) * m
    IN  [g |-> (distance \div Decimals5) * m + low \div Decimals5, e5 |-> low % Decimals5]

(* The geocoded-list rows a lookup of the code can find: of the kind, with *)
(* both coordinates numeric and the same trimmed code.                     *)
Found(kind, cell) ==
    {k \in 1..Len(GeoListInput) :
        /\ GeoListInput[k].code_type = kind
        /\ IsNumeric(GeoListInput[k].lat) /\ IsNumeric(GeoListInput[k].lon)
        /\ CodeText(GeoListInput[k].code) = CodeText(cell)}

(* C2.  Stage 3 conservation: after a finished run every input sales row,  *)
(* identified by its position in the concatenated input, is once in the    *)
(* normal and anomalous outputs taken together, with its own codes, so the *)
(* sizes of the outputs add up to the number of input rows; the result     *)
(* area shows the stored counts and the warning exactly when the outputs   *)
(* do not add up to the input.                                             *)
C2_Conservation ==
    Done_3 =>
        /\ Len(Normal_3) + Len(Anomaly_3) = Len(InputSalesRows_3)
        /\ \A i \in 1..Len(InputSalesRows_3) :
              /\ Cardinality(WithIndex(Normal_3, i)) + Cardinality(WithIndex(Anomaly_3, i)) = 1
              /\ \A k \in WithIndex(Results_3, i) :
                    /\ Results_3[k].supplier_code.s = CodeText(InputSalesRows_3[i].supplier_code)
                    /\ Results_3[k].consignee_code.s = CodeText(InputSalesRows_3[i].consignee_code)
        /\ ResultArea_3(session).view = "results"
        /\ ResultArea_3(session).input_count = Len(InputSalesRows_3)
        /\ ResultArea_3(session).normal_count = Len(Normal_3)
        /\ ResultArea_3(session).anomaly_count = Len(Anomaly_3)
        /\ (ResultArea_3(session).message = "warning")
              <=> (Len(Normal_3) + Len(Anomaly_3) # Len(InputSalesRows_3))

(* A finished run on two sales files, one with a quantity that is not a    *)
(* number, and a geocoded list with repeated codes and a coordinate that   *)
(* is not a number, with rows in both outputs.                             *)
C2_Witness ==
    /\ Done_3
    /\ Len(widgets.sales_uploader_co2) >= 2
    /\ \E i \in 1..Len(InputSalesRows_3) :
          ~isna(InputSalesRows_3[i].qty) /\ ~IsNumeric(InputSalesRows_3[i].qty)
    /\ \E i, j \in 1..Len(GeoListInput) :
          /\ i < j
          /\ j \in Found(GeoListInput[i].code_type, GeoListInput[i].code)
          /\ i \in Found(GeoListInput[i].code_type, GeoListInput[i].code)
    /\ \E i \in 1..Len(GeoListInput) : ~IsNumeric(GeoListInput[i].lat)
    /\ Normal_3 # <<>>
    /\ Anomaly_3 # <<>>

(* C8.  Threshold boundary: the distance of a result row is the haversine  *)
(* distance of its two points rounded to 5 decimals (in units of 1e-5 km); *)
(* the row is in the normal output if and only if that distance is at most *)
(* 600 km and in the anomalous output if and only if it is more, so in     *)
(* exactly one of them; 600.00000 km is normal, 600.00001 km anomalous.    *)
C8_Threshold ==
    Done_3 =>
        /\ \A k \in 1..Len(Normal_3) :
              /\ Normal_3[k].distance_km = round5(UnroundedDistance(Normal_3[k]))
              /\ Normal_3[k].distance_km <= ThresholdKm * Decimals5
              /\ WithIndex(Anomaly_3, Normal_3[k].index) = {}
        /\ \A k \in 1..Len(Anomaly_3) :
              /\ Anomaly_3[k].distance_km = round5(UnroundedDistance(Anomaly_3[k]))
              /\ Anomaly_3[k].distance_km > ThresholdKm * Decimals5
              /\ WithIndex(Normal_3, Anomaly_3[k].index) = {}
        /\ \A i \in 1..Len(InputSalesRows_3) : WithIndex(Results_3, i) # {}

(* A finished run with a row of distance 600.000004 km before rounding,    *)
(* 600.00000 km after it, in the normal output and a row of distance       *)
(* 600.00001 km in the anomalous output.                                   *)
C8_Witness ==
    /\ Done_3
    /\ \E k \in 1..Len(Normal_3) :
          /\ UnroundedDistance(Normal_3[k]) > ThresholdKm * MicroPerUnit
          /\ Normal_3[k].distance_km = ThresholdKm * Decimals5
    /\ \E k \in 1..Len(Anomaly_3) :
          Anomaly_3[k].distance_km = ThresholdKm * Decimals5 + 1

(* C9 as stated.  Missing-coordinate policy: an input sales row whose      *)
(* supplier lookup or consignee lookup finds no entry of the geocoded list *)
(* is in the normal output, with the coordinates of the side not found     *)
(* missing, the distance 0 and the CO2 amount 0, and is not in the         *)
(* anomalous output.                                                       *)
C9_AsStated ==
    Done_3 =>
        \A i \in 1..Len(InputSalesRows_3) :
            LET no_supplier == Found(KindSupplier, InputSalesRows_3[i].supplier_code) = {}
                no_consignee == Found(KindConsignee, InputSalesRows_3[i].consignee_code) = {}
            IN  (no_supplier \/ no_consignee) =>
                    /\ WithIndex(Anomaly_3, i) = {}
                    /\ \E k \in WithIndex(Normal_3, i) :
                          /\ no_supplier => /\ isna(Normal_3[k].supplier_lat)
                                            /\ isna(Normal_3[k].supplier_lon)
                          /\ no_consignee => /\ isna(Normal_3[k].consignee_lat)
                                             /\ isna(Normal_3[k].consignee_lon)
                          /\ Normal_3[k].distance_km = 0
                          /\ Normal_3[k].co2_g = [g |-> 0, e5 |-> 0]

(* C10 as stated.  Emission formula: the CO2 amount of every result row is *)
(* the product of the row's distance as emitted (rounded to 5 decimals),   *)
(* its quantity (0 when the cell is not a number) and the emission factor. *)
C10_AsStated ==
    Done_3 =>
        \A k \in 1..Len(Results_3) :
            Results_3[k].co2_g =
                ProductOfRounded(Results_3[k].distance_km, QuantityOf(Results_3[k].qty),
                                 widgets.co2_factor)

(* C10, amended.  The CO2 amount of every result row is the product of the *)
(* distance before its rounding (the haversine distance of the row's two   *)
(* points, 0 when a coordinate is missing), the quantity (0 when the cell  *)
(* is not a number) and the emission factor, rounded to 5 decimals; the    *)
(* distance is rounded to 5 decimals separately.                           *)
C10_UnroundedDistance ==
    Done_3 =>
        \A k \in 1..Len(Results_3) :
            /\ Results_3[k].distance_km = round5(UnroundedDistance(Results_3[k]))
            /\ Results_3[k].co2_g =
                  round5_co2(co2_product(UnroundedDistance(Results_3[k]),
                                         QuantityOf(Results_3[k].qty), widgets.co2_factor))

(* A finished run with a row of distance 600.000004 km before rounding and *)
(* quantity 2, whose CO2 amount at factor 230 is 276000.00184 g and not    *)
(* the 276000 g of the rounded distance, and a row whose quantity is not a *)
(* number, with the amount 0.                                              *)
C10_Witness ==
    /\ Done_3
    /\ widgets.co2_factor = 230
    /\ \E k \in 1..Len(Results_3) :
          /\ UnroundedDistance(Results_3[k]) = 600000004
          /\ Results_3[k].qty = Num(2)
          /\ Results_3[k].co2_g = [g |-> 276000, e5 |-> 184]
    /\ \E k \in 1..Len(Results_3) :
          /\ ~IsNumeric(Results_3[k].qty)
          /\ UnroundedDistance(Results_3[k]) > 0
          /\ Results_3[k].co2_g = [g |-> 0, e5 |-> 0]

-----------------------------------------------------------------------------
(* Page 3: the files of a run and the columns they lack.                   *)

Clicked_3 == Get(session, "co2_button_clicked", FALSE)

AllReadable_3 ==
    /\ \A i \in 1..Len(widgets.sales_uploader_co2) :
          read_csv_with_fallback_3(widgets.sales_uploader_co2[i]).ok
    /\ read_csv_with_fallback_3(widgets.geocoded_list_uploader).ok

SalesFilesLackingColumns_3 ==
    {i \in 1..Len(widgets.sales_uploader_co2) :
        ~(required_sales_cols_3 \subseteq widgets.sales_uploader_co2[i].cols)}

NoOutput_3 ==
    /\ ~Done_3
    /\ session["co2_normal_result_df"] = None
    /\ session["co2_anomaly_result_df"] = None

(* C12.  Schema check, Stage 3: after a run on readable files of which     *)
(* one, a single sales file among several included, lacks a required       *)
(* column, the stored error is the schema error and no output table is     *)
(* stored.                                                                 *)
C12_AsStated ==
    (/\ Clicked_3
     /\ AllReadable_3
     /\ \/ SalesFilesLackingColumns_3 # {}
        \/ ~(required_geocoded_cols \subseteq widgets.geocoded_list_uploader.cols))
    => /\ NoOutput_3
       /\ session["co2_error_message"] # None
       /\ session["co2_error_message"].msg = "missing columns"

-----------------------------------------------------------------------------
(* Page 3: the columns of the input and of the outputs.                    *)

InputSalesCols_3 == sales_data_raw(widgets.sales_uploader_co2).cols

OutputTables_3 == {session["co2_normal_result_df"], session["co2_anomaly_result_df"]}

(* The columns whose cells the run rewrites as trimmed text. *)
CodeCols_3 == {"supplier_code", "consignee_code"}

(* C16.  Passthrough columns: after a finished run both output tables have *)
(* every column of the input sales tables, a column called code, lat or    *)
(* lon included, and the six added columns, and every output row has, in   *)
(* each input column that is not a code column, the cell of its input row. *)
C16_AsStated ==
    Done_3 =>
        \A t \in OutputTables_3 :
            /\ t.cols = InputSalesCols_3 \cup added_cols
            /\ \A k \in 1..Len(t.rows) :
                  \A c \in InputSalesCols_3 \ CodeCols_3 :
                      t.rows[k][c] = InputSalesRows_3[t.rows[k].index][c]

-----------------------------------------------------------------------------
(* Page 3: the entries of the geocoded list with the code of a sales cell. *)

EntriesOf(kind, cell) ==
    {k \in 1..Len(GeoListInput) :
        /\ GeoListInput[k].code_type = kind
        /\ CodeText(GeoListInput[k].code) = CodeText(cell)}

SetMin(S) == CHOOSE x \in S : \A y \in S : x <= y

(* C18.  Stage 3 lookup dedup direction: after a finished run, a result    *)
(* row whose supplier (consignee) code is the normalized code of several   *)
(* supplier (consignee) entries of the geocoded list shows, as supplier    *)
(* (consignee) coordinates, the coordinates, read as numbers, of the first *)
(* of these entries in list order.                                         *)
C18_AsStated ==
    Done_3 =>
        \A k \in 1..Len(Results_3) :
            LET r == Results_3[k]
                sup == EntriesOf(KindSupplier, r.supplier_code)
                con == EntriesOf(KindConsignee, r.consignee_code)
            IN  /\ Cardinality(sup) >= 2 =>
                      /\ r.supplier_lat = to_numeric(GeoListInput[SetMin(sup)].lat)
                      /\ r.supplier_lon = to_numeric(GeoListInput[SetMin(sup)].lon)
                /\ Cardinality(con) >= 2 =>
                      /\ r.consignee_lat = to_numeric(GeoListInput[SetMin(con)].lat)
                      /\ r.consignee_lon = to_numeric(GeoListInput[SetMin(con)].lon)

-----------------------------------------------------------------------------
(* C19.  Null codes never join, Stage 3: after a finished run, a result    *)
(* row whose input row has a missing supplier (consignee) code shows no    *)
(* supplier (consignee) coordinates.                                       *)
C19_AsStated ==
    Done_3 =>
        \A k \in 1..Len(Results_3) :
            LET r == Results_3[k]
                input == InputSalesRows_3[r.index]
            IN  /\ isna(input.supplier_code) =>
                      isna(r.supplier_lat) /\ isna(r.supplier_lon)
                /\ isna(input.consignee_code) =>
                      isna(r.consignee_lat) /\ isna(r.consignee_lon)

-----------------------------------------------------------------------------
(* Page 1: the success rows of a kind and code.                            *)

Linked_1(kind, c) ==
    {k \in 1..Len(Success_1) : Success_1[k].code_type = kind /\ Success_1[k].code.s = c}

(* C20.  Hyphen asymmetry of the Stage 1 masters: after a finished run a   *)
(* sales consignee code is linked exactly when a consignee-master entry    *)
(* with a code and a postal code has that very code, trimmed and with its  *)
(* hyphens kept, and a sales supplier code is linked exactly when a        *)
(* supplier-master entry has that code once trimmed and rid of its         *)
(* hyphens.                                                                *)
C20_HyphenAsymmetry ==
    Done_1 =>
        /\ \A c \in CodeTexts(InputSalesRows_1, "consignee_code") :
              Linked_1(KindConsignee, c) # {}
                  <=> \E i \in 1..Len(ConsigneeRows) :
                         /\ ~isna(ConsigneeRows[i].code) /\ ~isna(ConsigneeRows[i].postal)
                         /\ strip(ConsigneeRows[i].code.s) = c
        /\ \A c \in CodeTexts(InputSalesRows_1, "supplier_code") :
              Linked_1(KindSupplier, c) # {}
                  <=> \E i \in 1..Len(SupplierRows) :
                         /\ ~isna(SupplierRows[i].code) /\ ~isna(SupplierRows[i].postal)
                         /\ RemoveHyphens(strip(SupplierRows[i].code.s)) = c

(* A finished run whose consignee master holds "C-1" only and whose        *)
(* supplier master holds "S-1" only: the sales consignee code "C1" is not  *)
(* linked, the sales consignee code "C-1" and the sales supplier code "S1" *)
(* are.                                                                    *)
C20_Witness ==
    /\ Done_1
    /\ \E i \in 1..Len(ConsigneeRows) :
          ConsigneeRows[i].code = C_1 /\ ~isna(ConsigneeRows[i].postal)
    /\ \A i \in 1..Len(ConsigneeRows) : ConsigneeRows[i].code \in {C_1, NaN}
    /\ \E i \in 1..Len(SupplierRows) :
          SupplierRows[i].code = S_1 /\ ~isna(SupplierRows[i].postal)
    /\ \A i \in 1..Len(SupplierRows) : SupplierRows[i].code \in {S_1, NaN}
    /\ \E k \in 1..Len(Failed_1) :
          Failed_1[k].code_type = KindConsignee /\ Failed_1[k].code = C1
    /\ Linked_1(KindConsignee, C_1.s) # {}
    /\ Linked_1(KindSupplier, S1.s) # {}

-----------------------------------------------------------------------------
(* haversine on its own: one call per behaviour, on two points of the      *)
(* table, each of the four arguments given as it is, missing, or as a text *)
(* that is not a number.                                                   *)

HaversinePairs == DOMAIN HaversineTable \cup HaversineDomainErrors

ArgumentForms(n) == {Num(n), NaN, NotANumber}

HaversineArgs ==
    UNION {ArgumentForms(pq[1][1]) \X ArgumentForms(pq[1][2])
              \X ArgumentForms(pq[2][1]) \X ArgumentForms(pq[2][2]) :
           pq \in HaversinePairs}

Init_haversine ==
    /\ widgets = NoWidgets
    /\ session = <<>>
    /\ call \in {[fn |-> "haversine", args |-> a, returned |-> FALSE, result |-> None] :
                    a \in HaversineArgs}

Call_haversine ==
    /\ call.fn = "haversine"
    /\ ~call.returned
    /\ call' = [call EXCEPT !.returned = TRUE,
                            !.result = haversine(call.args[1], call.args[2],
                                                 call.args[3], call.args[4])]
    /\ UNCHANGED <<widgets, session>>

Next_haversine == Call_haversine

SpecHaversine == Init_haversine /\ [][Next_haversine]_vars

-----------------------------------------------------------------------------
(* read_csv_with_fallback step by step: the seek before an attempt, and    *)
(* the attempt with the handler of what it raised.  call holds the page of *)
(* the helper, what each encoding does with the bytes (decode), the        *)
(* position of the helper (pc, and i for the encoding of the attempt), the *)
(* position of the byte cursor, the attempts made so far with the          *)
(* positions each started from and stopped at, last_exception, and the     *)
(* outcome: the table returned or the error raised with its cause.         *)

(* The size of the uploaded bytes: the positions of the cursor are         *)
(* 0..FileSize.                                                            *)
FileSize == 2

Pages == {1, 2, 3}

(* UTF-8 text with characters that CP932 cannot decode. *)
DecodeUtf8 ==
    [e \in Encodings |-> IF e = "cp932" THEN "UnicodeDecodeError" ELSE "ok"]

(* A CP932 file with a malformed line: the UTF-8 codecs stop at its first  *)
(* CP932 character, the parser stops at the line.                          *)
DecodeCp932Malformed ==
    [e \in Encodings |-> IF e = "cp932" THEN "Exception" ELSE "UnicodeDecodeError"]

DecodeProfiles ==
    {DecodeAscii, DecodeCp932, DecodeNone, DecodeBroken, DecodeUtf8, DecodeCp932Malformed}

(* The encodings a page's helper names: page 1 lines 15 and 25, pages 2    *)
(* and 3 encodings_to_try.                                                 *)
ConfiguredEncodings(page) ==
    IF page = 1 THEN <<"utf-8-sig", "cp932">> ELSE encodings_to_try

(* pd.read_csv(bytes_data, encoding=...) on a cursor at position start:    *)
(* what the encoding does with the whole bytes when the cursor is at 0;    *)
(* from another position the bytes left are not the file.                  *)
ReadResult(decode, encoding, start) ==
    IF start = 0 THEN decode[encoding] ELSE "Exception"

(* Every page going on to its next encoding after any exception. *)
HandleGoingOn(page, i, res) ==
    IF res = "ok" THEN "return"
    ELSE IF i < Len(ConfiguredEncodings(page)) THEN "next"
    ELSE "raise decode"

(* What follows an attempt, by what it raised.  Page 1, lines 12-38: the   *)
(* first attempt goes on to CP932 after UnicodeDecodeError only, and any   *)
(* other exception ends the helper with the read error; whatever the CP932 *)
(* attempt raises ends it with the decode error.  Pages 2 and 3, lines     *)
(* 15-31: any exception leads to the next encoding, the decode error is    *)
(* raised after the loop.                                                  *)
Handle(page, i, res) ==
    IF res = "ok" THEN "return"
    ELSE IF page = 1
    THEN IF i = 1
         THEN IF res = "UnicodeDecodeError" THEN "next" ELSE "raise read"
         ELSE "raise decode"
    ELSE IF i < Len(encodings_to_try) THEN "next" ELSE "raise decode"

ReaderStart(page, decode) ==
    [fn |-> "read_csv_with_fallback", page |-> page, decode |-> decode,
     pc |-> "seek", i |-> 1, cursor |-> 0, attempts |-> <<>>,
     last_exception |-> None, outcome |-> None]

Init_reader ==
    /\ widgets = NoWidgets
    /\ session = <<>>
    /\ call \in {ReaderStart(page, decode) : page \in Pages, decode \in DecodeProfiles}

(* The attempt made from wherever the cursor is. *)
SeekSkipped ==
    /\ call.fn = "read_csv_with_fallback"
    /\ call.pc = "seek"
    /\ call' = [call EXCEPT !.pc = "read"]
    /\ UNCHANGED <<widgets, session>>

(* bytes_data.seek(0) *)
Seek ==
    /\ call.fn = "read_csv_with_fallback"
    /\ call.pc = "seek"
    /\ call' = [call EXCEPT !.cursor = 0, !.pc = "read"]
    /\ UNCHANGED <<widgets, session>>

(* pd.read_csv with the encoding of the attempt, and the except clause or  *)
(* the return that follows.  A failed read leaves the cursor anywhere.     *)
ReadCsv ==
    /\ call.fn = "read_csv_with_fallback"
    /\ call.pc = "read"
    /\ \E pos \in 0..FileSize :
          LET enc == ConfiguredEncodings(call.page)[call.i]
              res == ReadResult(call.decode, enc, call.cursor)
              step == Handle(call.page, call.i, res)
              exc == IF res = "ok" THEN call.last_exception
                     ELSE [type |-> res, encoding |-> enc]
              stop == IF res = "ok" THEN FileSize ELSE pos
          IN  call' =
                [call EXCEPT
                    !.attempts = Append(@, [encoding |-> enc, start |-> call.cursor,
                                            stop |-> stop]),
                    !.cursor = stop,
                    !.last_exception = exc,
                    !.pc = IF step = "next" THEN "seek" ELSE "done",
                    !.i = IF step = "next" THEN @ + 1 ELSE @,
                    !.outcome =
                        CASE step = "return" -> [t |-> "df", encoding |-> enc]
                          [] step = "raise decode" ->
                                [t |-> "raise", err |-> ErrDecode, cause |-> exc]
                          [] step = "raise read" ->
                                [t |-> "raise", err |-> ErrRead, cause |-> exc]
                          [] OTHER -> None]
    /\ UNCHANGED <<widgets, session>>

Next_reader == Seek \/ ReadCsv

SpecReader == Init_reader /\ [][Next_reader]_vars

-----------------------------------------------------------------------------
(* The helper's call, seen from outside.                                   *)

FixedOrder == <<"utf-8-sig", "cp932", "utf-8">>

IsPrefix(s, t) == Len(s) <= Len(t) /\ \A k \in 1..Len(s) : s[k] = t[k]

Reading == call.fn = "read_csv_with_fallback"

Finished == Reading /\ call.pc = "done"

Returned == Finished /\ call.outcome.t = "df"

Raised == Finished /\ call.outcome.t = "raise"

AttemptedEncodings == [k \in 1..Len(call.attempts) |-> call.attempts[k].encoding]

(* The encodings of the fixed order that read the bytes. *)
Decoding == {k \in 1..Len(FixedOrder) : call.decode[FixedOrder[k]] = "ok"}

(* The first encoding of the fixed order that reads the bytes is the one   *)
(* whose table is returned, and it is the last one attempted.              *)
ReturnsFirstThatDecodes ==
    /\ Returned =>
          /\ Decoding # {}
          /\ call.outcome.encoding = FixedOrder[SetMin(Decoding)]
          /\ AttemptedEncodings[Len(AttemptedEncodings)] = call.outcome.encoding
          /\ \A k \in 1..(Len(call.attempts) - 1) :
                call.decode[call.attempts[k].encoding] # "ok"
    /\ (Finished /\ Decoding # {}) => Returned

Cp932ViaCp932 ==
    (Finished /\ call.decode = DecodeCp932) =>
        Returned /\ call.outcome.encoding = "cp932"

(* The function form of the helper, used by the runs, gives what the steps *)
(* give.                                                                   *)
StepsAgreeWithFunction ==
    Finished =>
        LET file == File(call.decode, {}, <<>>)
            r == IF call.page = 1 THEN read_csv_with_fallback_1(file)
                 ELSE IF call.page = 2 THEN read_csv_with_fallback_2(file)
                 ELSE read_csv_with_fallback_3(file)
        IN  /\ r.ok <=> Returned
            /\ r.tried = AttemptedEncodings
            /\ ~r.ok => r.err = call.outcome.err

(* C13 as stated.  The attempts follow the fixed order UTF-8 with BOM,     *)
(* CP932, plain UTF-8, each from cursor 0; the table returned is that of   *)
(* the first encoding of the order that decodes, with no attempt after it; *)
(* so a call that raised has attempted all three; a CP932 file is read via *)
(* CP932 on every page.                                                    *)
C13_AsStated ==
    Reading =>
        /\ IsPrefix(AttemptedEncodings, FixedOrder)
        /\ \A k \in 1..Len(call.attempts) : call.attempts[k].start = 0
        /\ ReturnsFirstThatDecodes
        /\ Raised => AttemptedEncodings = FixedOrder
        /\ Cp932ViaCp932

(* C13, amended.  Encoding fallback order: the attempts follow the fixed   *)
(* order, all three encodings on pages 2 and 3 and only UTF-8 with BOM and *)
(* CP932 on page 1, which never attempts plain UTF-8; the cursor is at 0   *)
(* at the start of every attempt; the table returned is that of the first  *)
(* encoding of the order that decodes, with no attempt after it; a CP932   *)
(* file is read via CP932 on every page.                                   *)
C13_FallbackOrder ==
    Reading =>
        /\ IsPrefix(AttemptedEncodings,
                    IF call.page = 1 THEN SubSeq(FixedOrder, 1, 2) ELSE FixedOrder)
        /\ \A k \in 1..Len(call.attempts) : call.attempts[k].start = 0
        /\ ReturnsFirstThatDecodes
        /\ (Raised /\ call.page # 1) => AttemptedEncodings = FixedOrder
        /\ Cp932ViaCp932
        /\ StepsAgreeWithFunction

(* Page 1 has read a CP932 file: UTF-8 with BOM attempted and failed, then *)
(* CP932 attempted from cursor 0 after the failed read had moved the       *)
(* cursor, and its table returned.                                         *)
C13_Witness ==
    /\ Returned
    /\ call.page = 1
    /\ call.decode = DecodeCp932
    /\ AttemptedEncodings = <<"utf-8-sig", "cp932">>
    /\ call.attempts[1].stop > 0
    /\ call.attempts[2].start = 0
    /\ call.outcome.encoding = "cp932"

-----------------------------------------------------------------------------
(* The error of the last attempt made. *)
LastAttemptError ==
    LET enc == AttemptedEncodings[Len(AttemptedEncodings)]
    IN  [type |-> call.decode[enc], encoding |-> enc]

Configured == IF call.page = 1 THEN SubSeq(FixedOrder, 1, 2) ELSE FixedOrder

(* C14 as stated.  Decode failure: a call that raised has attempted every  *)
(* configured encoding; a finished call has raised exactly when every      *)
(* configured encoding raised UnicodeDecodeError; the error raised has the *)
(* error of the last attempted encoding as its cause.                      *)
C14_AsStated ==
    Finished =>
        /\ Raised => AttemptedEncodings = Configured
        /\ Raised <=> \A k \in 1..Len(Configured) :
                          call.decode[Configured[k]] = "UnicodeDecodeError"
        /\ Raised => call.outcome.cause = LastAttemptError

(* C14, amended.  Decode failure: on pages 2 and 3 a call raises exactly   *)
(* when each of the three encodings raised, a decode-specific error or     *)
(* not, and it raises the decode error after all three were attempted.  On *)
(* page 1 a first attempt that raised an error that is not decode-specific *)
(* ends the call at once with the read error, CP932 untried; after a       *)
(* decode-specific error of the first attempt CP932 is attempted, and      *)
(* whatever it raises ends the call with the decode error.  On every page  *)
(* the error raised has the error of the last attempted encoding as its    *)
(* cause.                                                                  *)
C14_DecodeFailure ==
    Finished =>
        /\ call.page # 1 =>
              /\ Raised <=> \A k \in 1..Len(FixedOrder) : call.decode[FixedOrder[k]] # "ok"
              /\ Raised => AttemptedEncodings = FixedOrder /\ call.outcome.err = ErrDecode
        /\ call.page = 1 =>
              /\ call.decode["utf-8-sig"] = "Exception" =>
                    /\ Raised
                    /\ AttemptedEncodings = <<"utf-8-sig">>
                    /\ call.outcome.err = ErrRead
              /\ (call.decode["utf-8-sig"] = "UnicodeDecodeError"
                    /\ call.decode["cp932"] # "ok") =>
                    /\ Raised
                    /\ AttemptedEncodings = <<"utf-8-sig", "cp932">>
                    /\ call.outcome.err = ErrDecode
              /\ (call.decode["utf-8-sig"] = "ok"
                    \/ (call.decode["utf-8-sig"] = "UnicodeDecodeError"
                          /\ call.decode["cp932"] = "ok")) => Returned
        /\ Raised => call.outcome.cause = LastAttemptError

(* Page 1 has given up on a file that the parser rejects, after its first  *)
(* attempt.                                                                *)
C14_Witness ==
    /\ Raised
    /\ call.page = 1
    /\ call.decode = DecodeBroken
    /\ AttemptedEncodings = <<"utf-8-sig">>
    /\ call.outcome.cause = [type |-> "Exception", encoding |-> "utf-8-sig"]

-----------------------------------------------------------------------------
(* One session on the three pages.  The user opens a page and chooses its  *)
(* files (the widgets of the other pages are gone while a page is shown),  *)
(* and clicks the run button of the page when it is enabled; the session   *)
(* state lasts.  call records the page shown and the pages that have had a *)
(* finished run.                                                           *)

(* Page 1, lines 302-357: what the result area shows for a session:        *)
(* nothing before the first click, the error with the log, or the tables   *)
(* with the log.                                                           *)
ResultArea_1(ss) ==
    IF ~Get(ss, "button_clicked", FALSE) THEN [view |-> "none"]
    ELSE IF Get(ss, "error_message", None) # None
    THEN [view |-> "error", error |-> ss["error_message"],
          log |-> Get(ss, "log_messages", <<>>)]
    ELSE IF Get(ss, "processing_done", FALSE)
    THEN [view |-> "results", success_df |-> Get(ss, "success_df", None),
          failed_df |-> Get(ss, "failed_df", None),
          log |-> Get(ss, "log_messages", <<>>)]
    ELSE [view |-> "none"]

(* Page 2, lines 214-253. *)
ResultArea_2(ss) ==
    IF ~Get(ss, "geo_button_clicked", FALSE) THEN [view |-> "none"]
    ELSE IF Get(ss, "geo_error_message", None) # None
    THEN [view |-> "error", error |-> ss["geo_error_message"],
          log |-> Get(ss, "geo_log_messages", <<>>)]
    ELSE IF Get(ss, "geo_processing_done", FALSE)
    THEN [view |-> "results", success_df |-> Get(ss, "geo_success_df", None),
          failed_df |-> Get(ss, "geo_failed_df", None),
          log |-> Get(ss, "geo_log_messages", <<>>)]
    ELSE [view |-> "none"]

(* Page 1, lines 61-65 and 360-362; page 3, lines 58-60 and 253-254: the   *)
(* messages about the choice of files that the page shows: the error under *)
(* the sales uploader when more than 12 files are chosen, and the warning  *)
(* beside the button, which is in the else-branch of the result area and   *)
(* so is shown only while the button has never been clicked.               *)
FileMessages_1(w, ss) ==
    (IF Len(w.sales_uploader) > MaxSalesFiles THEN {"error"} ELSE {})
    \cup (IF ~Get(ss, "button_clicked", FALSE) /\ ~all_files_uploaded_1(w)
          THEN {"warning"} ELSE {})

FileMessages_3(w, ss) ==
    (IF Len(w.sales_uploader_co2) > MaxSalesFiles THEN {"error"} ELSE {})
    \cup (IF ~Get(ss, "co2_button_clicked", FALSE) /\ ~all_files_uploaded_3(w)
          THEN {"warning"} ELSE {})

ManySalesFiles(file) == [i \in 1..(MaxSalesFiles + 1) |-> file]

GoodSales_1 == SalesFile_1(<<SalesRow_1(S1, C1)>>)

GoodSupplierMaster == SupplierFile(<<MasterRow(S1, P100)>>)

GoodConsigneeMaster == ConsigneeFile(<<MasterRow(C_1, P200)>>)

SessionInputs_1 ==
    {Widgets_1(<<GoodSales_1>>, GoodSupplierMaster, GoodConsigneeMaster),
     Widgets_1(<<GoodSales_1>>, [GoodSupplierMaster EXCEPT !.decode = DecodeNone],
               GoodConsigneeMaster),
     Widgets_1(<<GoodSales_1>>, GoodSupplierMaster,
               [GoodConsigneeMaster EXCEPT !.cols = {}]),
     Widgets_1(<<GoodSales_1, [GoodSales_1 EXCEPT !.decode = DecodeBroken]>>,
               GoodSupplierMaster, GoodConsigneeMaster),
     Widgets_1(<<>>, GoodSupplierMaster, GoodConsigneeMaster),
     Widgets_1(ManySalesFiles(GoodSales_1), GoodSupplierMaster, GoodConsigneeMaster),
     Widgets_1(<<GoodSales_1>>, NoFile, GoodConsigneeMaster)}

GoodCodeList == CodeListFile(<<CodeRow(KindSupplier, S1, K1)>>)

GoodGeocode == GeocodeFile(<<GeoRow(K1, Num(10), Num(20))>>)

SessionInputs_2 ==
    {Widgets_2(GoodCodeList, GoodGeocode),
     Widgets_2([GoodCodeList EXCEPT !.decode = DecodeNone], GoodGeocode),
     Widgets_2(GoodCodeList, NoFile)}

GoodSales_3 == SalesFile_3(<<SalesRow_3(S1, C1, Num(2))>>)

GoodGeoList ==
    GeocodedListFile(<<GeoListRow(KindSupplier, S1, Pt0),
                       GeoListRow(KindConsignee, C1, PtAt600)>>)

SessionInputs_3 ==
    {Widgets_3(<<GoodSales_3>>, GoodGeoList, 230),
     Widgets_3(<<[GoodSales_3 EXCEPT !.decode = DecodeNone]>>, GoodGeoList, 230),
     Widgets_3(<<GoodSales_3>>, [GoodGeoList EXCEPT !.decode = DecodeBroken], 230),
     Widgets_3(<<GoodSales_3>>, [GoodGeoList EXCEPT !.cols = {}], 230),
     Widgets_3(<<SalesFileWith({"code", "lat", "lon"},
                               <<SalesRowWith(S1, C1, Num(1), T(<<"X">>), NotANumber,
                                              Num(PtFar[2]))>>)>>,
               GoodGeoList, 230),
     Widgets_3(<<GoodSales_3>>,
               GeocodedListFile(<<GeoListRow(KindSupplier, S1, PtNorth),
                                  GeoListRow(KindConsignee, C1, PtAntipode)>>), 230),
     Widgets_3(<<>>, GoodGeoList, 230),
     Widgets_3(ManySalesFiles(GoodSales_3), GoodGeoList, 230),
     Widgets_3(<<GoodSales_3>>, NoFile, 230)}

Session(page, finished) == [fn |-> "session", page |-> page, finished |-> finished]

(* The application opens on page 1 with nothing chosen. *)
Init_session ==
    /\ widgets = NoWidgets
    /\ session = <<>>
    /\ call = Session(1, {})

Upload_1 ==
    /\ widgets' \in SessionInputs_1
    /\ call' = Session(1, call.finished)
    /\ UNCHANGED session

Upload_2 ==
    /\ widgets' \in SessionInputs_2
    /\ call' = Session(2, call.finished)
    /\ UNCHANGED session

Upload_3 ==
    /\ widgets' \in SessionInputs_3
    /\ call' = Session(3, call.finished)
    /\ UNCHANGED session

SessionRun_1 ==
    /\ call.page = 1
    /\ Click_1
    /\ call' = IF Get(session', "processing_done", FALSE)
               THEN Session(1, call.finished \cup {1}) ELSE call

SessionRun_2 ==
    /\ call.page = 2
    /\ Click_2
    /\ call' = IF Get(session', "geo_processing_done", FALSE)
               THEN Session(2, call.finished \cup {2}) ELSE call

SessionRun_3 ==
    /\ call.page = 3
    /\ Click_3
    /\ call' = IF Get(session', "co2_processing_done", FALSE)
               THEN Session(3, call.finished \cup {3}) ELSE call

Next_session ==
    \/ Upload_1 \/ Upload_2 \/ Upload_3
    \/ SessionRun_1 \/ SessionRun_2 \/ SessionRun_3

SpecSession == Init_session /\ [][Next_session]_vars

-----------------------------------------------------------------------------
(* C11 *)

Stages == {1, 2, 3}

ErrorKey(stage) ==
    CASE stage = 1 -> "error_message"
      [] stage = 2 -> "geo_error_message"
      [] stage = 3 -> "co2_error_message"

LogKey(stage) ==
    CASE stage = 1 -> "log_messages"
      [] stage = 2 -> "geo_log_messages"
      [] stage = 3 -> "co2_log_messages"

ClickedKey(stage) ==
    CASE stage = 1 -> "button_clicked"
      [] stage = 2 -> "geo_button_clicked"
      [] stage = 3 -> "co2_button_clicked"

DoneKey(stage) ==
    CASE stage = 1 -> "processing_done"
      [] stage = 2 -> "geo_processing_done"
      [] stage = 3 -> "co2_processing_done"

TableKeys(stage) ==
    CASE stage = 1 -> {"success_df", "failed_df"}
      [] stage = 2 -> {"geo_success_df", "geo_failed_df"}
      [] stage = 3 -> {"co2_normal_result_df", "co2_anomaly_result_df"}

ResetOf(stage) ==
    CASE stage = 1 -> Reset_1
      [] stage = 2 -> Reset_2
      [] stage = 3 -> Reset_3

ResultAreaOf(stage) ==
    CASE stage = 1 -> ResultArea_1(session)
      [] stage = 2 -> ResultArea_2(session)
      [] stage = 3 -> ResultArea_3(session)

(* The last run of the stage failed: its error is what the session holds. *)
FailedRun(stage) == Get(session, ErrorKey(stage), None) # None

NoTables(stage) ==
    /\ Get(session, DoneKey(stage), FALSE) = FALSE
    /\ \A k \in TableKeys(stage) : Get(session, k, None) = None

ShowsError(stage) ==
    /\ ResultAreaOf(stage).view = "error"
    /\ ResultAreaOf(stage).error = session[ErrorKey(stage)]

(* C11 as stated: after a failed run of a stage the stored tables are None *)
(* and the done flag is false, the result area shows the error, and        *)
(* nothing of the run but the error message and the log is retained: every *)
(* other key of the stage holds the value the reset gave it.               *)
C11_AsStated ==
    \A stage \in Stages :
        FailedRun(stage) =>
            /\ NoTables(stage)
            /\ ShowsError(stage)
            /\ \A k \in DOMAIN ResetOf(stage) \ {ErrorKey(stage), LogKey(stage)} :
                   k \in DOMAIN session /\ session[k] = ResetOf(stage)[k]

(* C11: for any sequence of runs in one session, after a failed run of a   *)
(* stage the stored output tables are None and the done flag is false, the *)
(* result area shows the stored error and no table, and of the run only    *)
(* the error message, the log and, in stage 3, the count of the sales rows *)
(* read before the failure are retained.                                   *)
C11_AllOrNothing ==
    \A stage \in Stages :
        FailedRun(stage) =>
            /\ NoTables(stage)
            /\ ShowsError(stage)
            /\ \A k \in DOMAIN ResetOf(stage)
                        \ {ErrorKey(stage), LogKey(stage), "co2_input_count"} :
                   k \in DOMAIN session /\ session[k] = ResetOf(stage)[k]
            /\ stage = 3 => session["co2_input_count"] \in Nat

(* Every stage has failed after an earlier finished run of the same stage, *)
(* and stage 3 failed after it had counted its sales rows.                 *)
C11_Witness ==
    /\ call.fn = "session"
    /\ call.finished = Stages
    /\ \A stage \in Stages : FailedRun(stage)
    /\ session["co2_input_count"] > 0

-----------------------------------------------------------------------------
(* C15 *)

(* The choice of files of the stage that the claim rules out, written from *)
(* the claim: no sales file, more than 12, or a required single file       *)
(* missing.                                                                *)
IllChosen(stage) ==
    CASE stage = 1 -> \/ Len(widgets.sales_uploader) = 0
                      \/ Len(widgets.sales_uploader) > 12
                      \/ ~widgets.supplier_uploader.present
                      \/ ~widgets.consignee_uploader.present
      [] stage = 3 -> \/ Len(widgets.sales_uploader_co2) = 0
                      \/ Len(widgets.sales_uploader_co2) > 12
                      \/ ~widgets.geocoded_list_uploader.present

(* What the session holds for the stage. *)
Stored(stage, ss) == [k \in DOMAIN ResetOf(stage) \cap DOMAIN ss |-> ss[k]]

(* No run of the stage: what is stored for it stays as it is. *)
NoRun(stage) == Stored(stage, session') = Stored(stage, session)

FileMessagesOf(stage) ==
    CASE stage = 1 -> FileMessages_1(widgets, session)
      [] stage = 3 -> FileMessages_3(widgets, session)

(* C15 as stated: while the files chosen on the page of Stage 1 or Stage 3 *)
(* are none or more than 12 sales files, or lack a required single file,   *)
(* no step runs the pipeline or changes the stored results of the stage,   *)
(* and the page rejects the choice with a message (an error or a warning). *)
C15_AsStated ==
    [][\A stage \in {1, 3} :
           (call.page = stage /\ IllChosen(stage)) =>
               /\ NoRun(stage)
               /\ FileMessagesOf(stage) # {}]_vars

-----------------------------------------------------------------------------
(* C21 *)

Clicked_2 == Get(session, "geo_button_clicked", FALSE)

(* Both files of page 2 are read and have their required columns. *)
Ingested_2 ==
    /\ read_csv_with_fallback_2(widgets.code_list_uploader).ok
    /\ required_code_list_cols \subseteq widgets.code_list_uploader.cols
    /\ read_csv_with_fallback_2(widgets.geocode_uploader).ok
    /\ required_geocode_cols \subseteq widgets.geocode_uploader.cols

(* The geocode rows, as uploaded, that the specification lets through its  *)
(* filter: both coordinates numeric and the key seven ASCII digits.        *)
ValidGeocodeRows ==
    SelectSeq(GeocodeInput,
              LAMBDA r : /\ IsNumeric(r.latitude) /\ IsNumeric(r.longitude)
                         /\ SevenAsciiDigits(PostalKeyOf(r.postal_cd)))

(* C21 as stated.  Empty geocode reference: when every geocode row has a   *)
(* non-numeric coordinate or a postal key that is not seven ASCII digits,  *)
(* the run of Stage 2 completes without error, the matched output is empty *)
(* and every code-list row whose postal key is seven ASCII digits is in    *)
(* the unmatched output with the failure reason.                           *)
C21_AsStated ==
    (Clicked_2 /\ Ingested_2 /\ ValidGeocodeRows = <<>>) =>
        /\ Done_2
        /\ session["geo_error_message"] = None
        /\ Success_2 = <<>>
        /\ \A i \in 1..Len(CodeListInput) :
              SevenAsciiDigits(PostalKeyOf(CodeListInput[i].postal)) =>
                  \E k \in 1..Len(Failed_2) :
                      /\ Shown(Failed_2[k]) = Shown(CodeListInput[i])
                      /\ Failed_2[k].reason = FailureReason

-----------------------------------------------------------------------------
(* C22 *)

(* The keys of the file uploaders of each page (page 1 lines 59, 72, 82;   *)
(* page 2 lines 51, 60; page 3 lines 56, 63).                              *)
UploaderKeys(stage) ==
    CASE stage = 1 -> {"sales_uploader", "supplier_uploader", "consignee_uploader"}
      [] stage = 2 -> {"code_list_uploader", "geocode_uploader"}
      [] stage = 3 -> {"sales_uploader_co2", "geocoded_list_uploader"}

(* Every session key a stage uses. *)
StageKeys(stage) == DOMAIN ResetOf(stage) \cup UploaderKeys(stage)

DisjointKeys ==
    \A s, o \in Stages : s # o => StageKeys(s) \cap StageKeys(o) = {}

(* What a run of the stage on the files chosen gives, whatever the session *)
(* held before.                                                            *)
OutcomeOf(stage) ==
    CASE stage = 1 -> Process_1(widgets)
      [] stage = 2 -> Process_2(widgets)
      [] stage = 3 -> Process_3(widgets)

(* C22.  Stage state isolation: the three stages keep their run state and  *)
(* their uploaders under pairwise disjoint session keys, and the session   *)
(* holds no other key; a step that changes what is stored for a stage (a   *)
(* run of it, finished or failed, first or repeated) is taken on the page  *)
(* of that stage, leaves everything stored for the other two stages as it  *)
(* was, and its outcome is that of the pipeline on the files chosen on the *)
(* page, independent of what the other stages stored.                      *)
C22_StageIsolation ==
    [][/\ DisjointKeys
       /\ DOMAIN session' \subseteq UNION {DOMAIN ResetOf(s) : s \in Stages}
       /\ \A s \in Stages :
             Stored(s, session') # Stored(s, session) =>
                 /\ call.page = s
                 /\ \A o \in Stages \ {s} : Stored(o, session') = Stored(o, session)
                 /\ Get(session', DoneKey(s), FALSE) = OutcomeOf(s).ok
                 /\ FailedRun(s)' = ~OutcomeOf(s).ok
                 /\ session'[LogKey(s)] = OutcomeOf(s).log]_vars

(* Stage 1 holds the error of a run that failed after an earlier finished  *)
(* run, while Stages 2 and 3 hold the tables of finished runs: runs of the *)
(* other stages came between or after and let each other's results stand.  *)
C22_Witness ==
    /\ call.fn = "session"
    /\ call.finished = Stages
    /\ FailedRun(1)
    /\ Done_2 /\ Len(Success_2) > 0
    /\ Done_3 /\ session["co2_normal_result_df"] # None

=============================================================================
